---- MODULE Spec2Model ----
(***************************************************************************)
(* The agent execution engine of OpenManus: the BaseAgent state machine    *)
(* and run loop (app/agent/base.py), the ReAct step (app/agent/react.py),  *)
(* the tool-calling think/act (app/agent/toolcall.py), the planning        *)
(* overlay (app/agent/planning.py), the tool registry                      *)
(* (app/tool/tool_collection.py) and the planning tool                     *)
(* (app/tool/planning.py).                                                 *)
(*                                                                         *)
(* Text is modelled as TLA+ strings.  Chinese literals of the source are *)
(* written in English and its non-ASCII symbols as <U+xxxx>, because a     *)
(* TLA+ string holds ASCII only (the backquote is written <U+0060> too).  *)
(* None for an optional text is the empty string (the code only tests      *)
(* such values for truthiness).                                            *)
(*                                                                         *)
(* One agent instance is driven by the asyncio tasks of Tasks.  A task     *)
(* runs without interruption between two awaits that suspend (the model    *)
(* client request, the execution of a tool that does I/O); another task    *)
(* is scheduled only while every other one is suspended or outside run().  *)
(***************************************************************************)
EXTENDS Integers, Sequences, FiniteSets, TLC

\* ------------------------------------------------------------------ bounds
MaxSteps == 2   \* max_steps is drawn from 1..MaxSteps
MaxAsk == 2     \* model requests that are answered; later requests raise
MaxMem == 3     \* the longest Memory the direct calls of update_memory build
QuietSteps == 4 \* max_steps is drawn from 1..QuietSteps under the repeating model
MaxTools == 5   \* the longest tools tuple add_tool builds
MaxCalls == 2   \* the calls each concurrent caller makes on the session tools

\* --------------------------------------------------------------- constants
duplicate_threshold == 2

AgentStates == {"IDLE", "RUNNING", "FINISHED", "ERROR"}
ToolChoices == {"auto", "required", "none"}
Kinds == {"toolcall", "planning"}
Tasks == {"t1", "t2"}

TOOL_CALL_REQUIRED == "Tool calls required but none provided"
INVALID_START == "Cannot run agent from state: "
NEXT_STEP_PROMPT == "If you want to stop interaction, use <U+0060>terminate<U+0060> tool/function call."
PLANNING_NEXT_STEP_PROMPT == "\nBased on the current state, what's your next action?\nChoose the most efficient path forward:\n1. Is the plan sufficient, or does it need refinement?\n2. Can you execute the next step immediately?\n3. Is the task complete? If so, use <U+0060>finish<U+0060> right away.\nBe concise in your reasoning, then select the appropriate tool or action.\n"
STUCK_PROMPT == "        Observed duplicate responses. Consider new strategies and avoid repeating ineffective paths already attempted."
NO_ACTION == "Thinking complete - no action needed"
NO_CONTENT == "No content or commands to execute"
NO_STEPS == "No steps executed"

TerminateName == "terminate"
PlanningName == "planning"
OrdinaryName == "create_chat_completion"
UnknownName == "ghost"

\* ToolCallAgent.special_tool_names, a field of the agent; every agent class
\* sets it to the name of Terminate
VARIABLE special_tool_names
DefaultSpecialTools == {TerminateName}

\* The names registered in the ToolCollection of the agent.  ToolCallAgent registers
\* CreateChatCompletion and Terminate; PlanningAgent is given PlanningTool
\* and Terminate, and its collection is a constructor argument, here holding
\* one ordinary tool as well.
tool_map(k) ==
    IF k = "planning" THEN {PlanningName, TerminateName, OrdinaryName}
    ELSE {OrdinaryName, TerminateName}

\* ToolCollection as an object: tools is the tuple of the registered tools,
\* tool_map the dict from a name to the tool registered last under it.  impl
\* tells two tools of one name apart.
Tool(name, impl) == [name |-> name, impl |-> impl]

\* ToolCollection.__init__(*tools)
ToolCollection(tools) ==
    [tools |-> tools,
     tool_map |-> [n \in {tools[i].name : i \in DOMAIN tools} |->
                      tools[CHOOSE i \in DOMAIN tools :
                               /\ tools[i].name = n
                               /\ \A j \in DOMAIN tools : tools[j].name = n => j <= i]]]

\* The collection each agent is constructed with, see tool_map(k)
ConstructedTools(k) ==
    IF k = "planning"
    THEN ToolCollection(<<Tool(PlanningName, "builtin"), Tool(TerminateName, "builtin"),
                          Tool(OrdinaryName, "builtin")>>)
    ELSE ToolCollection(<<Tool(OrdinaryName, "builtin"), Tool(TerminateName, "builtin")>>)

\* ToolCollection.add_tool
add_tool(reg, tool) ==
    [tools |-> Append(reg.tools, tool),
     tool_map |-> [n \in DOMAIN reg.tool_map \cup {tool.name} |->
                      IF n = tool.name THEN tool ELSE reg.tool_map[n]]]

\* ToolCollection.add_tools
RECURSIVE add_tools(_, _)
add_tools(reg, tools) ==
    IF tools = <<>> THEN reg ELSE add_tools(add_tool(reg, Head(tools)), Tail(tools))

\* ToolCollection.to_params: one schema per entry of tools, here the name
\* and the implementation it describes
to_params(reg) == [i \in DOMAIN reg.tools |-> reg.tools[i]]

\* ToolCollection.get_tool
get_tool(reg, name) == reg.tool_map[name]

\* ---------------------------------------------------------------- messages
NoCalls == <<>>

Msg(r, c, calls, id, n) ==
    [role |-> r, content |-> c, tool_calls |-> calls, tool_call_id |-> id, name |-> n]

user_message(c) == Msg("user", c, NoCalls, "", "")
assistant_message(c) == Msg("assistant", c, NoCalls, "", "")
system_message(c) == Msg("system", c, NoCalls, "", "")
from_tool_calls(c, calls) == Msg("assistant", c, calls, "", "")
tool_message(c, id, n) == Msg("tool", c, NoCalls, id, n)

\* A Memory that keeps only its newest messages
AddMessageDropsOldest(mem, m) == IF Len(mem) >= 3 THEN Append(Tail(mem), m) ELSE Append(mem, m)

add_message(mem, m) == Append(mem, m)

RECURSIVE Join(_, _)
Join(strs, sep) ==
    IF Len(strs) = 0 THEN ""
    ELSE IF Len(strs) = 1 THEN strs[1]
    ELSE strs[1] \o sep \o Join(Tail(strs), sep)

RECURSIVE Repeat(_, _)
Repeat(ch, n) == IF n <= 0 THEN "" ELSE ch \o Repeat(ch, n - 1)

\* ------------------------------------------------------- the planning tool
\* PlanningTool.plans is a dict: a sequence of plans in insertion order.
NoIndex == <<>>     \* step_index = None; <<i>> is the index i

PlanCmd(c, pid, title, steps, idx, status, notes) ==
    [command |-> c, plan_id |-> pid, title |-> title, steps |-> steps,
     step_index |-> idx, step_status |-> status, step_notes |-> notes]

StepStatuses == <<"not_started", "in_progress", "completed", "blocked">>

HasPlan(ps, pid) == \E i \in 1..Len(ps) : ps[i].plan_id = pid
PlanPos(ps, pid) == CHOOSE i \in 1..Len(ps) : ps[i].plan_id = pid
PlanOf(ps, pid) == ps[PlanPos(ps, pid)]

CountStatus(statuses, s) == Cardinality({i \in 1..Len(statuses) : statuses[i] = s})

\* f"{completed/total*100:.1f}" (no tie at the second decimal for the step
\* counts of this model)
Percent1(completed, total) ==
    LET tenths == (2000 * completed + total) \div (2 * total)
    IN ToString(tenths \div 10) \o "." \o ToString(tenths % 10)

status_sym(status) ==
    CASE status = "not_started" -> "<U+25A1>"
      [] status = "in_progress" -> "<U+25B6>"
      [] status = "completed" -> "<U+2713>"
      [] status = "blocked" -> "<U+203C>"
      [] OTHER -> "<U+25A1>"

RECURSIVE FormatSteps(_, _)
FormatSteps(plan, i) ==
    IF i > Len(plan.steps) THEN ""
    ELSE ToString(i - 1) \o ". " \o status_sym(plan.step_statuses[i]) \o " "
            \o plan.steps[i] \o "\n"
         \o (IF plan.step_notes[i] # "" THEN "   Note: " \o plan.step_notes[i] \o "\n"
             ELSE "")
         \o FormatSteps(plan, i + 1)

_format_plan(plan) ==
    LET head == "Plan: " \o plan.title \o " (ID: " \o plan.plan_id \o ")\n"
        total == Len(plan.steps)
        completed == CountStatus(plan.step_statuses, "completed")
    IN head \o Repeat("=", Len(head)) \o "\n\n"
       \o "Progress: " \o ToString(completed) \o "/" \o ToString(total) \o " ("
       \o Percent1(completed, total) \o "%)\n"
       \o "Status: " \o ToString(completed) \o " completed, "
       \o ToString(CountStatus(plan.step_statuses, "in_progress")) \o " in progress, "
       \o ToString(CountStatus(plan.step_statuses, "blocked")) \o " blocked, "
       \o ToString(CountStatus(plan.step_statuses, "not_started")) \o " not started\n\n"
       \o "Step details:\n"
       \o FormatSteps(plan, 1)

\* [v] * n
RECURSIVE Fill(_, _)
Fill(n, v) == IF n = 0 THEN <<>> ELSE Append(Fill(n - 1, v), v)

\* update: the statuses (or the notes) of the new steps; the entry of a step
\* that kept its place and its text is kept, the others start afresh
RECURSIVE Carried(_, _, _, _, _)
Carried(new_steps, old_steps, old_values, fresh, n) ==
    IF n = 0 THEN <<>>
    ELSE Append(Carried(new_steps, old_steps, old_values, fresh, n - 1),
                IF n <= Len(old_steps) /\ new_steps[n] = old_steps[n]
                THEN old_values[n] ELSE fresh)

\* PlanStepStatus.get_status_marks: the marker of each status
get_status_marks(status) ==
    CASE status = "completed" -> "[<U+2713>]"
      [] status = "in_progress" -> "[<U+2192>]"
      [] status = "blocked" -> "[!]"
      [] OTHER -> "[ ]"

\* The result of a command: ok = FALSE is a raised ToolError carrying text.
PlanResult(ps, cur, ok, text) == [plans |-> ps, cur |-> cur, ok |-> ok, text |-> text]

\* A variant of create that overwrites a plan of the same id
CreateOverwrites(ps, cur, c) ==
    IF c.plan_id = "" \/ c.title = "" \/ c.steps = <<>>
    THEN PlanResult(ps, cur, FALSE, "rejected")
    ELSE LET plan == [plan_id |-> c.plan_id, title |-> c.title, steps |-> c.steps,
                      step_statuses |-> Fill(Len(c.steps), "not_started"),
                      step_notes |-> Fill(Len(c.steps), "")]
         IN PlanResult(IF HasPlan(ps, c.plan_id)
                       THEN [ps EXCEPT ![PlanPos(ps, c.plan_id)] = plan]
                       ELSE Append(ps, plan),
                       c.plan_id, TRUE, "Plan created: " \o c.plan_id)

_create_plan(ps, cur, c) ==
    IF c.plan_id = "" THEN PlanResult(ps, cur, FALSE, "plan_id is required to create a plan")
    ELSE IF HasPlan(ps, c.plan_id)
        THEN PlanResult(ps, cur, FALSE, "A plan with ID " \o c.plan_id \o " already exists")
    ELSE IF c.title = "" THEN PlanResult(ps, cur, FALSE, "A plan title is required")
    ELSE IF c.steps = <<>>
        THEN PlanResult(ps, cur, FALSE, "Steps must be a non-empty list of strings")
    ELSE LET plan == [plan_id |-> c.plan_id, title |-> c.title, steps |-> c.steps,
                      step_statuses |-> Fill(Len(c.steps), "not_started"),
                      step_notes |-> Fill(Len(c.steps), "")]
         IN PlanResult(Append(ps, plan), c.plan_id, TRUE,
                "Plan created: " \o c.plan_id \o "\n\n" \o _format_plan(plan))

\* A variant of update that replaces the steps and keeps the old status and
\* note lists
UpdateKeepsStatusLists(ps, cur, c) ==
    IF c.plan_id = "" THEN PlanResult(ps, cur, FALSE, "plan_id is required to update a plan")
    ELSE IF ~HasPlan(ps, c.plan_id)
        THEN PlanResult(ps, cur, FALSE, "No plan found with ID " \o c.plan_id)
    ELSE PlanResult([ps EXCEPT ![PlanPos(ps, c.plan_id)] =
                        IF c.steps # <<>> THEN [@ EXCEPT !.steps = c.steps] ELSE @],
                    cur, TRUE, "Plan updated: " \o c.plan_id)

_update_plan(ps, cur, c) ==
    IF c.plan_id = "" THEN PlanResult(ps, cur, FALSE, "plan_id is required to update a plan")
    ELSE IF ~HasPlan(ps, c.plan_id)
        THEN PlanResult(ps, cur, FALSE, "No plan found with ID " \o c.plan_id)
    ELSE LET old == PlanOf(ps, c.plan_id)
             p1 == IF c.title # "" THEN [old EXCEPT !.title = c.title] ELSE old
             p2 == IF c.steps # <<>>
                   THEN [p1 EXCEPT
                           !.steps = c.steps,
                           !.step_statuses = Carried(c.steps, old.steps, old.step_statuses,
                                                     "not_started", Len(c.steps)),
                           !.step_notes = Carried(c.steps, old.steps, old.step_notes,
                                                  "", Len(c.steps))]
                   ELSE p1
         IN PlanResult([ps EXCEPT ![PlanPos(ps, c.plan_id)] = p2], cur, TRUE,
                "Plan updated: " \o c.plan_id \o "\n\n" \o _format_plan(p2))

RECURSIVE ListLines(_, _, _)
ListLines(ps, cur, i) ==
    IF i > Len(ps) THEN ""
    ELSE "* " \o ps[i].plan_id \o (IF ps[i].plan_id = cur THEN " (current)" ELSE "")
         \o ": " \o ps[i].title \o " - "
         \o ToString(CountStatus(ps[i].step_statuses, "completed")) \o "/"
         \o ToString(Len(ps[i].steps)) \o " steps completed\n"
         \o ListLines(ps, cur, i + 1)

_list_plans(ps, cur) ==
    IF ps = <<>> THEN PlanResult(ps, cur, TRUE, "No plans yet, use the create command")
    ELSE PlanResult(ps, cur, TRUE, "Available plans:\n" \o ListLines(ps, cur, 1))

_get_plan(ps, cur, c) ==
    IF c.plan_id = "" /\ cur = ""
        THEN PlanResult(ps, cur, FALSE, "No plan ID given and no active plan")
    ELSE LET pid == IF c.plan_id # "" THEN c.plan_id ELSE cur
         IN IF ~HasPlan(ps, pid)
            THEN PlanResult(ps, cur, FALSE, "No plan found with ID " \o pid)
            ELSE PlanResult(ps, cur, TRUE, _format_plan(PlanOf(ps, pid)))

_set_active_plan(ps, cur, c) ==
    IF c.plan_id = "" THEN PlanResult(ps, cur, FALSE, "plan_id is required to activate a plan")
    ELSE IF ~HasPlan(ps, c.plan_id)
        THEN PlanResult(ps, cur, FALSE, "No plan found with ID " \o c.plan_id)
    ELSE PlanResult(ps, c.plan_id, TRUE,
            "Plan activated: " \o c.plan_id \o "\n\n" \o _format_plan(PlanOf(ps, c.plan_id)))

\* A variant of mark_step that writes whatever status it is given
MarkStepAnyStatus(ps, cur, c) ==
    LET pid == IF c.plan_id # "" THEN c.plan_id ELSE cur
    IN IF pid = "" \/ ~HasPlan(ps, pid) \/ c.step_index = NoIndex
       THEN PlanResult(ps, cur, FALSE, "rejected")
       ELSE IF c.step_index[1] < 0 \/ c.step_index[1] >= Len(PlanOf(ps, pid).steps)
       THEN PlanResult(ps, cur, FALSE, "rejected")
       ELSE PlanResult([ps EXCEPT ![PlanPos(ps, pid)].step_statuses[c.step_index[1] + 1] =
                           IF c.step_status # "" THEN c.step_status ELSE @],
                       cur, TRUE, "Step updated")

_mark_step(ps, cur, c) ==
    LET pid == IF c.plan_id # "" THEN c.plan_id ELSE cur
    IN IF pid = "" THEN PlanResult(ps, cur, FALSE, "No plan ID given and no active plan")
       ELSE IF ~HasPlan(ps, pid)
           THEN PlanResult(ps, cur, FALSE, "No plan found with ID " \o pid)
       ELSE IF c.step_index = NoIndex
           THEN PlanResult(ps, cur, FALSE, "A step index is required")
       ELSE LET plan == PlanOf(ps, pid)
                idx == c.step_index[1]
            IN IF idx < 0 \/ idx >= Len(plan.steps)
               THEN PlanResult(ps, cur, FALSE,
                        "Step index " \o ToString(idx) \o " is out of range")
               ELSE IF c.step_status # ""
                       /\ \A k \in 1..Len(StepStatuses) : StepStatuses[k] # c.step_status
               THEN PlanResult(ps, cur, FALSE, "Invalid status value")
               ELSE LET p1 == IF c.step_status # ""
                              THEN [plan EXCEPT !.step_statuses[idx + 1] = c.step_status]
                              ELSE plan
                        p2 == IF c.step_notes # ""
                              THEN [p1 EXCEPT !.step_notes[idx + 1] = c.step_notes]
                              ELSE p1
                    IN PlanResult([ps EXCEPT ![PlanPos(ps, pid)] = p2], cur, TRUE,
                           "Step " \o ToString(idx) \o " updated\n\n" \o _format_plan(p2))

\* _delete_plan that leaves the current-plan id as it is
DeleteKeepsCurrent(ps, cur, c) ==
    IF c.plan_id = "" THEN PlanResult(ps, cur, FALSE, "plan_id is required to delete a plan")
    ELSE IF ~HasPlan(ps, c.plan_id)
        THEN PlanResult(ps, cur, FALSE, "No plan found with ID " \o c.plan_id)
    ELSE LET k == PlanPos(ps, c.plan_id)
         IN PlanResult(SubSeq(ps, 1, k - 1) \o SubSeq(ps, k + 1, Len(ps)),
                       cur, TRUE, "Plan deleted: " \o c.plan_id)

_delete_plan(ps, cur, c) ==
    IF c.plan_id = "" THEN PlanResult(ps, cur, FALSE, "plan_id is required to delete a plan")
    ELSE IF ~HasPlan(ps, c.plan_id)
        THEN PlanResult(ps, cur, FALSE, "No plan found with ID " \o c.plan_id)
    ELSE LET k == PlanPos(ps, c.plan_id)
         IN PlanResult(SubSeq(ps, 1, k - 1) \o SubSeq(ps, k + 1, Len(ps)),
                       IF cur = c.plan_id THEN "" ELSE cur, TRUE,
                       "Plan deleted: " \o c.plan_id)

\* PlanningTool.execute: the dispatch on command
PlanningExecute(ps, cur, c) ==
    CASE c.command = "create" -> _create_plan(ps, cur, c)
      [] c.command = "update" -> _update_plan(ps, cur, c)
      [] c.command = "list" -> _list_plans(ps, cur)
      [] c.command = "get" -> _get_plan(ps, cur, c)
      [] c.command = "set_active" -> _set_active_plan(ps, cur, c)
      [] c.command = "mark_step" -> _mark_step(ps, cur, c)
      [] c.command = "delete" -> _delete_plan(ps, cur, c)
      [] OTHER -> PlanResult(ps, cur, FALSE, "Unsupported command: " \o c.command)


\* ------------------------------------------------------------ text helpers
Min(a, b) == IF a <= b THEN a ELSE b

\* s[:n] for n >= 0
Prefix(s, n) == SubSeq(s, 1, Min(n, Len(s)))

\* pat in s
Contains(s, pat) ==
    \E i \in 1..(Len(s) - Len(pat) + 1) : SubSeq(s, i, i + Len(pat) - 1) = pat

IsSpace(ch) == ch = " " \/ ch = "\n"

RECURSIVE LStrip(_)
LStrip(s) == IF Len(s) > 0 /\ IsSpace(SubSeq(s, 1, 1)) THEN LStrip(SubSeq(s, 2, Len(s))) ELSE s

RECURSIVE RStrip(_)
RStrip(s) ==
    IF Len(s) > 0 /\ IsSpace(SubSeq(s, Len(s), Len(s)))
    THEN RStrip(SubSeq(s, 1, Len(s) - 1)) ELSE s

\* str.strip()
Strip(s) == LStrip(RStrip(s))

\* str.splitlines(): the lines of s, a final newline opening no further line
RECURSIVE SplitFrom(_, _)
SplitFrom(s, start) ==
    IF start > Len(s) THEN <<>>
    ELSE LET nl == {i \in start..Len(s) : SubSeq(s, i, i) = "\n"}
         IN IF nl = {} THEN <<SubSeq(s, start, Len(s))>>
            ELSE LET i == CHOOSE x \in nl : \A y \in nl : x <= y
                 IN <<SubSeq(s, start, i - 1)>> \o SplitFrom(s, i + 1)

splitlines(s) == SplitFrom(s, 1)

\* ------------------------------------------------------- the tool registry
\* A tool call as the model client returns it.  json: the argument payload
\* parses as JSON; fits: the decoded arguments fit the signature of the tool (a
\* call that does not raises TypeError); cmd: the decoded arguments of a
\* planning call.
NoCmd == PlanCmd("", "", "", <<>>, NoIndex, "", "")

ToolCallOf(id, n, j, f, c) == [id |-> id, name |-> n, json |-> j, fits |-> f, cmd |-> c]

\* What running a tool yields: raised (an exception that is no ToolError),
\* or a result with its truth value and its str().
Raised(ps, cur, text) ==
    [raised |-> TRUE, truthy |-> FALSE, failure |-> FALSE, str |-> text, plans |-> ps, cur |-> cur]
Returned(ps, cur, truthy, failure, text) ==
    [raised |-> FALSE, truthy |-> truthy, failure |-> failure, str |-> text,
     plans |-> ps, cur |-> cur]

\* ToolFailure(error=str(e)): truthy when the error text is not empty;
\* str() is "Error: ..."
ToolFailure(ps, cur, text) == Returned(ps, cur, text # "", TRUE, "Error: " \o text)

ToolOutcomes == {"out", "empty", "toolerror", "exception"}

\* PlanningTool.execute as ToolCollection.execute sees it: a ToolResult, or
\* the ToolFailure made of the ToolError it raised
PlanningOutcome(r) ==
    IF r.ok THEN Returned(r.plans, r.cur, r.text # "", FALSE, r.text)
    ELSE ToolFailure(r.plans, r.cur, r.text)

\* tool(**tool_input) of each tool of the collection
RunTool(name, call, outcome, ps, cur) ==
    IF ~call.fits THEN Raised(ps, cur, "unexpected keyword argument")
    ELSE IF name = TerminateName
        THEN Returned(ps, cur, TRUE, FALSE, "Interaction completed, status: success")
    ELSE IF name = PlanningName
        THEN PlanningOutcome(PlanningExecute(ps, cur, call.cmd))
    ELSE CASE outcome = "out" -> Returned(ps, cur, TRUE, FALSE, "out")
           [] outcome = "empty" -> Returned(ps, cur, FALSE, FALSE, "")
           [] outcome = "toolerror" -> ToolFailure(ps, cur, "boom")
           [] OTHER -> Raised(ps, cur, "crash")

\* A registry that looks the tool up with tool_map[name] and lets the
\* KeyError of an unregistered name escape
ToolCollectionExecuteRaises(k, name, call, outcome, ps, cur) ==
    IF name \notin tool_map(k) THEN Raised(ps, cur, "KeyError: " \o name)
    ELSE RunTool(name, call, outcome, ps, cur)

\* ToolCollection.execute
ToolCollectionExecute(k, name, call, outcome, ps, cur) ==
    IF name \notin tool_map(k) THEN ToolFailure(ps, cur, "Tool does not exist: " \o name)
    ELSE RunTool(name, call, outcome, ps, cur)

\* ------------------------------------------------------ the tool-call agent
_is_special_tool(name) == name \in special_tool_names

\* _should_finish_execution that never lets a special tool finish the run
ShouldFinishNever == FALSE

\* ToolCallAgent._should_finish_execution
_should_finish_execution == TRUE

\* _handle_special_tool that never finishes the run
HandleSpecialToolNever(name, st) == st

\* ToolCallAgent._handle_special_tool: the state it leaves
_handle_special_tool(name, st) ==
    IF ~_is_special_tool(name) THEN st
    ELSE IF _should_finish_execution THEN "FINISHED" ELSE st

ExecResult(obs, ps, cur, st, ran) ==
    [obs |-> obs, plans |-> ps, cur |-> cur, state |-> st, ran |-> ran]

\* execute_tool whose except branch still runs the special-tool handling
ObservationHandlesOnError(call, r, st) ==
    IF r.raised
    THEN ExecResult("Error: <U+26A0> Tool '" \o call.name
                        \o "' encountered a problem: " \o r.str,
                    r.plans, r.cur, _handle_special_tool(call.name, st), FALSE)
    ELSE ExecResult(
            IF r.truthy
            THEN "Observed output of cmd <U+0060>" \o call.name \o "<U+0060> executed:\n" \o r.str
            ELSE "Cmd <U+0060>" \o call.name \o "<U+0060> completed with no output",
            r.plans, r.cur, _handle_special_tool(call.name, st), TRUE)

\* ToolCallAgent.execute_tool once ToolCollection.execute has yielded r
Observation(call, r, st) ==
    IF r.raised
    THEN ExecResult("Error: <U+26A0> Tool '" \o call.name
                        \o "' encountered a problem: " \o r.str,
                    r.plans, r.cur, st, FALSE)
    ELSE ExecResult(
            IF r.truthy
            THEN "Observed output of cmd <U+0060>" \o call.name \o "<U+0060> executed:\n" \o r.str
            ELSE "Cmd <U+0060>" \o call.name \o "<U+0060> completed with no output",
            r.plans, r.cur, _handle_special_tool(call.name, st), TRUE)

\* ToolCallAgent.execute_tool.  ran: the tool was run and returned a result.
execute_tool(k, call, outcome, ps, cur, st) ==
    IF call.name = "" THEN ExecResult("Error: Invalid command format", ps, cur, st, FALSE)
    ELSE IF call.name \notin tool_map(k)
        THEN ExecResult("Error: Unknown tool '" \o call.name \o "'", ps, cur, st, FALSE)
    ELSE IF ~call.json
        THEN ExecResult("Error: Error parsing arguments for " \o call.name
                            \o ": Invalid JSON format", ps, cur, st, FALSE)
    ELSE Observation(call, ToolCollectionExecute(k, call.name, call, outcome, ps, cur), st)

\* The call reaches ToolCollection.execute
Dispatches(k, call) == call.name # "" /\ call.name \in tool_map(k) /\ call.json

\* The execution of the tool suspends the task (a tool doing I/O); Terminate and
\* PlanningTool return without suspending.
Suspends(k, call) == Dispatches(k, call) /\ call.name = OrdinaryName /\ call.fits

\* max_observe of ToolCallAgent and PlanningAgent is None (0: no truncation)
max_observe == 0

Observe(result) == IF max_observe # 0 THEN Prefix(result, max_observe) ELSE result

\* A variant of act without tool calls that never raises
ActNoCallsNeverRaises(mode, mem) ==
    [raised |-> FALSE,
     text |-> IF mem # <<>> /\ mem[Len(mem)].content # "" THEN mem[Len(mem)].content
              ELSE NO_CONTENT]

\* ToolCallAgent.act when tool_calls is empty: the fault it raises or the
\* text it returns; messages[-1] of an empty list raises IndexError
ActNoCalls(mode, mem) ==
    IF mode = "required" THEN [raised |-> TRUE, text |-> TOOL_CALL_REQUIRED]
    ELSE IF mem = <<>> THEN [raised |-> TRUE, text |-> "list index out of range"]
    ELSE [raised |-> FALSE,
          text |-> IF mem[Len(mem)].content # "" THEN mem[Len(mem)].content
                   ELSE NO_CONTENT]

\* The part of ToolCallAgent.think after the model client has answered:
\* the memory it leaves and the value it returns.
ThinkResult(mem, ret) == [mem |-> mem, ret |-> ret]

\* think that, in mode AUTO, returns true for an answer without tool calls
\* and without text
ThinkAutoAlwaysActs(mode, mem, content, calls, malformed) ==
    IF mode = "none"
    THEN IF content # ""
         THEN ThinkResult(add_message(mem, assistant_message(content)), TRUE)
         ELSE ThinkResult(mem, FALSE)
    ELSE IF malformed /\ calls # <<>>
    THEN ThinkResult(add_message(mem, assistant_message(
             "Error encountered while processing: invalid message")), FALSE)
    ELSE ThinkResult(add_message(mem, IF calls # <<>> THEN from_tool_calls(content, calls)
                                      ELSE assistant_message(content)),
                     mode = "required" \/ mode = "auto" \/ calls # <<>>)

ThinkAfterResponse(mode, mem, content, calls, malformed) ==
    LET failed == ThinkResult(add_message(mem, assistant_message(
                      "Error encountered while processing: invalid message")), FALSE)
    IN IF mode = "none"
       THEN IF content # ""
            THEN ThinkResult(add_message(mem, assistant_message(content)), TRUE)
            ELSE ThinkResult(mem, FALSE)
       ELSE IF malformed /\ calls # <<>> THEN failed
       ELSE LET m == IF calls # <<>> THEN from_tool_calls(content, calls)
                     ELSE assistant_message(content)
                mem1 == add_message(mem, m)
            IN IF mode = "required" /\ calls = <<>> THEN ThinkResult(mem1, TRUE)
               ELSE IF mode = "auto" /\ calls = <<>> THEN ThinkResult(mem1, content # "")
               ELSE ThinkResult(mem1, calls # <<>>)

\* A variant of is_stuck that counts the messages of every role
IsStuckAnyRole(mem) ==
    IF Len(mem) < 2 THEN FALSE
    ELSE IF mem[Len(mem)].content = "" THEN FALSE
    ELSE Cardinality({i \in 1..(Len(mem) - 1) : mem[i].content = mem[Len(mem)].content})
         >= duplicate_threshold

\* BaseAgent.is_stuck
is_stuck(mem) ==
    IF Len(mem) < 2 THEN FALSE
    ELSE LET last_message == mem[Len(mem)]
         IN IF last_message.content = "" THEN FALSE
            ELSE Cardinality({i \in 1..(Len(mem) - 1) :
                     mem[i].role = "assistant" /\ mem[i].content = last_message.content})
                 >= duplicate_threshold

\* A variant of handle_stuck_state that leaves the prompt as it was
HandleStuckKeepsPrompt(prompt) == prompt

\* BaseAgent.handle_stuck_state: the next_step_prompt it leaves
handle_stuck_state(prompt) == STUCK_PROMPT \o "\n" \o prompt


\* ------------------------------------------------------ the planning agent
NoPlan == [is_none |-> FALSE, text |-> "No active plan. Please create a plan first."]

InternalCall(c) == ToolCallOf("", PlanningName, TRUE, TRUE, c)

\* result.output of a tool result: None for a ToolFailure
Output(r) ==
    IF r.failure THEN [is_none |-> TRUE, text |-> "None"]
    ELSE [is_none |-> FALSE, text |-> r.str]

\* PlanningAgent.get_plan
get_plan(k, active, ps, cur) ==
    IF active = "" THEN NoPlan
    ELSE Output(ToolCollectionExecute(k, PlanningName,
                    InternalCall(PlanCmd("get", active, "", <<>>, NoIndex, "", "")),
                    "out", ps, cur))

\* The least member of a set of positions; 0 if there is none
FirstOf(hits) == IF hits = {} THEN 0 ELSE CHOOSE i \in hits : \A j \in hits : i <= j

IsStepsMarker(line) == Strip(line) = "Steps:"
IsActiveStep(line) == Contains(line, "[ ]") \/ Contains(line, "[<U+2192>]")

\* The position of the first line that is the Steps: marker
FirstStepsMarker(lines) == FirstOf({i \in 1..Len(lines) : IsStepsMarker(lines[i])})

\* The position of the first line after position from that shows a step that
\* is not started or in progress
FirstActiveStep(lines, from) ==
    FirstOf({i \in (from + 1)..Len(lines) : IsActiveStep(lines[i])})

IndexResult(idx, ps, cur) == [index |-> idx, plans |-> ps, cur |-> cur]

\* The plan store after a planning command the agent issues itself
StoreAfter(r) == [plans |-> r.plans, cur |-> r.cur]

\* _get_current_step_index: the step found at line hit is marked in progress
MarkCurrent(k, active, i, ps, cur) ==
    [index |-> <<i>>] @@ StoreAfter(ToolCollectionExecute(k, PlanningName,
        InternalCall(PlanCmd("mark_step", active, "", <<>>, <<i>>, "in_progress", "")),
        "out", ps, cur))

\* _get_current_step_index: the scan of the lines of the plan text
IndexInLines(k, active, plan_lines, ps, cur) ==
    LET steps_index == FirstStepsMarker(plan_lines)
        hit == FirstActiveStep(plan_lines, steps_index)
    IN IF steps_index = 0 \/ hit = 0 THEN IndexResult(NoIndex, ps, cur)
       ELSE MarkCurrent(k, active, hit - steps_index - 1, ps, cur)

IndexOfPlan(k, active, plan, ps, cur) ==
    IF plan.is_none THEN IndexResult(NoIndex, ps, cur)
    ELSE IndexInLines(k, active, splitlines(plan.text), ps, cur)

\* PlanningAgent._get_current_step_index: the index it returns and the plan
\* store it leaves
_get_current_step_index(k, active, ps, cur) ==
    IF active = "" THEN IndexResult(NoIndex, ps, cur)
    ELSE IndexOfPlan(k, active, get_plan(k, active, ps, cur), ps, cur)

\* step_execution_tracker is a dict keyed by tool call id: a sequence of
\* entries in insertion order
Tracked(tr, id) == \E i \in 1..Len(tr) : tr[i].id = id
TrackPos(tr, id) == CHOOSE i \in 1..Len(tr) : tr[i].id = id

TrackerSet(tr, id, entry) ==
    IF Tracked(tr, id) THEN [tr EXCEPT ![TrackPos(tr, id)] = entry] ELSE Append(tr, entry)

\* A think that never records the scheduled call
TrackAfterThinkNever(tr, ret, calls, idx) == tr

\* The end of PlanningAgent.think: the tracker it leaves
TrackAfterThink(tr, ret, calls, idx) ==
    IF ret /\ calls # <<>>
       /\ calls[1].name # PlanningName
       /\ calls[1].name \notin special_tool_names
       /\ idx # NoIndex
    THEN TrackerSet(tr, calls[1].id,
            [id |-> calls[1].id, step_index |-> idx[1], tool_name |-> calls[1].name,
             status |-> "pending", result |-> ""])
    ELSE tr

\* update_plan_status on the tracker entry e of the call
MarkCompleted(k, active, e, ps, cur) ==
    IF e.status # "completed" THEN [plans |-> ps, cur |-> cur]
    ELSE StoreAfter(ToolCollectionExecute(k, PlanningName,
            InternalCall(PlanCmd("mark_step", active, "", <<>>,
                                 <<e.step_index>>, "completed", "")),
            "out", ps, cur))

\* PlanningAgent.update_plan_status: the plan store it leaves
update_plan_status(k, active, tr, id, ps, cur) ==
    IF active = "" \/ ~Tracked(tr, id) THEN [plans |-> ps, cur |-> cur]
    ELSE MarkCompleted(k, active, tr[TrackPos(tr, id)], ps, cur)

\* act: the tracker entry of the first call is completed with result
Completed(tr, id, result) ==
    [tr EXCEPT ![TrackPos(tr, id)].status = "completed",
               ![TrackPos(tr, id)].result = result]

\* An act that leaves the record of the call as think made it
ActAfterKeepsPending(k, active, tr, calls, result, ps, cur) ==
    [tracker |-> tr, plans |-> ps, cur |-> cur]

\* The end of PlanningAgent.act, after ToolCallAgent.act returned result
ActAfter(k, active, tr, calls, result, ps, cur) ==
    IF k # "planning" \/ calls = <<>> \/ ~Tracked(tr, calls[1].id)
    THEN [tracker |-> tr, plans |-> ps, cur |-> cur]
    ELSE [tracker |-> Completed(tr, calls[1].id, result)]
         @@ (IF calls[1].name # PlanningName /\ calls[1].name \notin special_tool_names
             THEN update_plan_status(k, active, Completed(tr, calls[1].id, result),
                                     calls[1].id, ps, cur)
             ELSE [plans |-> ps, cur |-> cur])

\* -------------------------------------------------------- the model client
\* What ask_tool may do: raise, or return content and tool calls.
\* malformed: building a Message from the response raises.
Resp(raises, content, calls, malformed) ==
    [raises |-> raises, content |-> content, calls |-> calls, malformed |-> malformed]

CallSpec(n, j, f, c) == [name |-> n, json |-> j, fits |-> f, cmd |-> c]

ActivePlan == "plan_0"

TermOk == CallSpec(TerminateName, TRUE, TRUE, NoCmd)
TermBadArgs == CallSpec(TerminateName, TRUE, FALSE, NoCmd)
OrdOk == CallSpec(OrdinaryName, TRUE, TRUE, NoCmd)
OrdBadJson == CallSpec(OrdinaryName, FALSE, TRUE, NoCmd)
Ghost == CallSpec(UnknownName, TRUE, TRUE, NoCmd)
NoName == CallSpec("", TRUE, TRUE, NoCmd)
PlanCreate ==
    CallSpec(PlanningName, TRUE, TRUE,
             PlanCmd("create", ActivePlan, "Trip", <<"book", "pack">>, NoIndex, "", ""))
PlanMark ==
    CallSpec(PlanningName, TRUE, TRUE,
             PlanCmd("mark_step", ActivePlan, "", <<>>, <<0>>, "blocked", "late"))
PlanDelete ==
    CallSpec(PlanningName, TRUE, TRUE,
             PlanCmd("delete", ActivePlan, "", <<>>, NoIndex, "", ""))

Responses(k) ==
    { Resp(TRUE, "", <<>>, FALSE),
      Resp(FALSE, "", <<>>, FALSE),
      Resp(FALSE, "thought", <<>>, FALSE),
      Resp(FALSE, "thought", <<OrdOk>>, TRUE),
      Resp(FALSE, "", <<TermOk>>, FALSE),
      Resp(FALSE, "thought", <<OrdOk, TermOk>>, FALSE),
      Resp(FALSE, "", <<TermOk, OrdOk>>, FALSE),
      Resp(FALSE, "", <<OrdBadJson, Ghost>>, FALSE),
      Resp(FALSE, "thought", <<NoName, TermBadArgs>>, FALSE) }
    \cup (IF k = "planning"
          THEN { Resp(FALSE, "", <<PlanCreate>>, FALSE),
                 Resp(FALSE, "", <<PlanMark, PlanDelete>>, FALSE) }
          ELSE {})

\* The tool calls of the n-th answer, with the ids the client gives them
WithIds(specs, n) ==
    [i \in 1..Len(specs) |->
        ToolCallOf("call_" \o ToString(n) \o "_" \o ToString(i),
                   specs[i].name, specs[i].json, specs[i].fits, specs[i].cmd)]

Requests == {"", "fly me to the moon"}


\* The concurrent callers of one instance of each session tool
Callers == {"c1", "c2"}

\* ------------------------------------------------------------------- state
VARIABLES
    kind,                   \* the agent class: ToolCallAgent or PlanningAgent
    tool_choices,           \* ToolCallAgent.tool_choices
    max_steps,              \* BaseAgent.max_steps
    state,                  \* BaseAgent.state
    current_step,           \* BaseAgent.current_step
    next_step_prompt,       \* BaseAgent.next_step_prompt
    messages,               \* BaseAgent.memory.messages
    tool_calls,             \* ToolCallAgent.tool_calls
    active_plan_id,         \* PlanningAgent.active_plan_id
    step_execution_tracker, \* PlanningAgent.step_execution_tracker
    current_step_index,     \* PlanningAgent.current_step_index
    plans,                  \* PlanningTool.plans
    current_plan_id,        \* PlanningTool._current_plan_id
    pc,                     \* where each task is in run()
    previous_state,         \* state_context: previous_state of each task
    results,                \* run: results of each task
    retval,                 \* what run() returned to each task
    fault,                  \* the exception run() raised to each task
    cmd_idx,                \* act: the position of command in tool_calls
    act_results,            \* act: results
    asks,                   \* answers the model client has returned
    dispatched,             \* ids of the calls passed to ToolCollection.execute
    last_think,             \* the last think(): the answer and what it returned
    last_exec,              \* the last execute_tool(): the call and its effect
    entry_step,             \* current_step when each task entered state_context
    step_count,             \* run: the calls of step() of each task
    probe,                  \* the last direct call of a method and its outcome
    ask_limit,              \* the requests the model client answers before it fails
    registry,               \* available_tools: the ToolCollection of the agent
    callers,                \* where each concurrent caller of a session tool is
    bash_tool,              \* Bash: the sessions made so far and _session
    terminal_tool,          \* Terminal: lock, process and current_path
    browser_tool,           \* BrowserUseTool: lock, browser and context
    manus                   \* Manus.execute_tool: the tool each run is executing

shared == <<callers, bash_tool, terminal_tool, browser_tool, manus>>
NoManus == [name |-> "", at |-> ""]
config == <<kind, tool_choices, max_steps, active_plan_id, ask_limit, registry, shared,
           special_tool_names>>
agent == <<state, current_step, next_step_prompt, messages, tool_calls,
           step_execution_tracker, current_step_index>>
store == <<plans, current_plan_id>>
locals == <<pc, previous_state, results, retval, fault, cmd_idx, act_results>>
history == <<asks, dispatched, last_think, last_exec>>
counts == <<entry_step, step_count>>
vars == <<config, agent, store, locals, history, counts, probe>>

NoProbe == [op |-> "", arg |-> "", before |-> <<>>, raised |-> FALSE, failure |-> FALSE,
            truth |-> FALSE, text |-> ""]

NoThink == [mode |-> "", content |-> "", calls |-> <<>>, malformed |-> FALSE,
            raised |-> FALSE, ret |-> FALSE, added |-> <<>>]
NoExec == [call |-> ToolCallOf("", "", TRUE, TRUE, NoCmd), obs |-> "", ran |-> FALSE,
           before |-> "", after |-> ""]

\* The agent after construction, with max_steps drawn from 1..steps, a
\* model client that answers limit requests, and the special tools special
InitOf(steps, limit, special) ==
    /\ kind \in Kinds
    /\ special_tool_names = special
    /\ tool_choices \in ToolChoices
    /\ max_steps \in 1..steps
    /\ ask_limit = limit
    /\ registry = ConstructedTools(kind)
    /\ callers = [c \in Callers |-> [tool |-> "", at |-> "idle", session |-> 0, calls |-> 0]]
    /\ bash_tool = [sessions |-> <<>>, session |-> 0]
    /\ terminal_tool = [lock |-> "", process |-> "", current_path |-> "/"]
    /\ browser_tool = [lock |-> "", browser |-> FALSE, context |-> FALSE]
    /\ manus = [c \in Callers |-> NoManus]
    /\ state = "IDLE"
    /\ current_step = 0
    /\ next_step_prompt =
          (IF kind = "planning" THEN PLANNING_NEXT_STEP_PROMPT ELSE NEXT_STEP_PROMPT)
    /\ messages = <<>>
    /\ tool_calls = <<>>
    /\ active_plan_id = (IF kind = "planning" THEN ActivePlan ELSE "")
    /\ step_execution_tracker = <<>>
    /\ current_step_index = NoIndex
    /\ plans = <<>>
    /\ current_plan_id = ""
    /\ pc = [t \in Tasks |-> "idle"]
    /\ previous_state = [t \in Tasks |-> "IDLE"]
    /\ results = [t \in Tasks |-> <<>>]
    /\ retval = [t \in Tasks |-> ""]
    /\ fault = [t \in Tasks |-> ""]
    /\ cmd_idx = [t \in Tasks |-> 0]
    /\ act_results = [t \in Tasks |-> <<>>]
    /\ asks = 0
    /\ dispatched = <<>>
    /\ last_think = NoThink
    /\ last_exec = NoExec
    /\ entry_step = [t \in Tasks |-> 0]
    /\ step_count = [t \in Tasks |-> 0]
    /\ probe = NoProbe

\* The agent constructed with the special tools of its class
InitWith(steps, limit) == InitOf(steps, limit, DefaultSpecialTools)

Init == InitWith(MaxSteps, MaxAsk)

\* ------------------------------------------------------------- scheduling
Suspended == {"cip_wait", "think_wait", "exec_wait"}
Outside == {"idle", "returned", "raised"}

\* Task t runs: every other task is suspended in an await or outside run()
Scheduled(t) == \A u \in Tasks \ {t} : pc[u] \in Suspended \cup Outside

\* ---------------------------------------------------------- BaseAgent.run
\* run() from its first line, on memory mem and state st: the start-state
\* check, the request, and the entry into state_context(RUNNING)
BaseRun(t, request, mem, st) ==
    IF st # "IDLE"
    THEN /\ fault' = [fault EXCEPT ![t] = INVALID_START \o st]
         /\ pc' = [pc EXCEPT ![t] = "raised"]
         /\ messages' = mem
         /\ state' = st
         /\ UNCHANGED <<previous_state, results, counts>>
    ELSE /\ messages' = (IF request # "" THEN add_message(mem, user_message(request))
                         ELSE mem)
         /\ previous_state' = [previous_state EXCEPT ![t] = st]
         /\ state' = "RUNNING"
         /\ results' = [results EXCEPT ![t] = <<>>]
         /\ pc' = [pc EXCEPT ![t] = "loop"]
         /\ fault' = [fault EXCEPT ![t] = ""]
         /\ entry_step' = [entry_step EXCEPT ![t] = current_step]
         /\ step_count' = [step_count EXCEPT ![t] = 0]

\* A task calls run(request).  PlanningAgent.run with a request starts with
\* create_initial_plan, up to its model request.  Each task calls run() once;
\* the tasks are interchangeable, so t2 is the one that calls second.
Call(t, request) ==
    /\ pc[t] = "idle"
    /\ Scheduled(t)
    /\ t = "t2" => pc["t1"] # "idle"
    /\ retval' = [retval EXCEPT ![t] = ""]
    /\ IF kind = "planning" /\ request # ""
       THEN /\ messages' = add_message(messages, user_message(
                   "Analyze the request and create a plan with ID " \o active_plan_id
                       \o ": " \o request))
            /\ pc' = [pc EXCEPT ![t] = "cip_wait"]
            /\ fault' = [fault EXCEPT ![t] = ""]
            /\ UNCHANGED <<state, previous_state, results, counts>>
       ELSE BaseRun(t, request, messages, state)
    /\ UNCHANGED <<config, probe, current_step, next_step_prompt, tool_calls,
                   step_execution_tracker, current_step_index, store,
                   cmd_idx, act_results, asks, dispatched, last_think, last_exec>>


\* state_context without its except clause: the state is left as it was
RaiseKeepsState(t, f) ==
    /\ state' = state
    /\ pc' = [pc EXCEPT ![t] = "unwind"]
    /\ fault' = [fault EXCEPT ![t] = f]

\* An exception leaves the body of state_context: its except clause has set
\* ERROR, its finally clause has yet to run
RaiseInScope(t, f) ==
    /\ state' = "ERROR"
    /\ pc' = [pc EXCEPT ![t] = "unwind"]
    /\ fault' = [fault EXCEPT ![t] = f]

\* run: the rest of a loop iteration once step() has returned step_result
FinishStep(t, mem, step_result) ==
    /\ messages' = mem
    /\ next_step_prompt' = (IF is_stuck(mem) THEN handle_stuck_state(next_step_prompt)
                            ELSE next_step_prompt)
    /\ results' = [results EXCEPT ![t] =
          Append(@, "Step " \o ToString(current_step) \o ": " \o step_result)]
    /\ pc' = [pc EXCEPT ![t] = "loop"]

FirstPlanningCall(calls) ==
    LET hits == {i \in 1..Len(calls) : calls[i].name = PlanningName}
    IN IF hits = {} THEN 0 ELSE CHOOSE i \in hits : \A j \in hits : i <= j

\* PlanningAgent.create_initial_plan from the answer of the model client,
\* followed by BaseAgent.run
CipRespond(t, r) ==
    /\ pc[t] = "cip_wait"
    /\ Scheduled(t)
    /\ asks >= ask_limit => r.raises
    /\ IF r.raises \/ r.malformed
       THEN /\ pc' = [pc EXCEPT ![t] = "raised"]
            /\ fault' = [fault EXCEPT ![t] =
                  IF r.raises THEN "model client error" ELSE "invalid message"]
            /\ asks' = (IF r.raises THEN asks ELSE asks + 1)
            /\ UNCHANGED <<messages, state, previous_state, results, store,
                           dispatched, last_exec, counts>>
       ELSE \E calls \in {WithIds(r.calls, asks + 1)} :
            \E mem1 \in {add_message(messages, from_tool_calls(r.content, calls))} :
            \E k \in {FirstPlanningCall(calls)} :
               /\ asks' = asks + 1
               /\ IF k # 0
                  THEN \E e \in {execute_tool(kind, calls[k], "out", plans,
                                              current_plan_id, state)} :
                       /\ plans' = e.plans
                       /\ current_plan_id' = e.cur
                       /\ dispatched' = (IF Dispatches(kind, calls[k])
                                         THEN Append(dispatched, calls[k].id)
                                         ELSE dispatched)
                       /\ last_exec' = [call |-> calls[k], obs |-> e.obs, ran |-> e.ran,
                                        before |-> state, after |-> e.state]
                       /\ BaseRun(t, "", add_message(mem1,
                              tool_message(e.obs, calls[k].id, calls[k].name)), e.state)
                  ELSE /\ UNCHANGED <<store, dispatched, last_exec>>
                       /\ BaseRun(t, "", add_message(mem1, assistant_message(
                              "Error: Parameter <U+0060>plan_id<U+0060> is required for command: create")),
                              state)
    /\ UNCHANGED <<config, probe, current_step, next_step_prompt, tool_calls,
                   step_execution_tracker, current_step_index,
                   retval, cmd_idx, act_results, last_think>>

\* The while loop of run with an off-by-one test of the step limit
ContinueOneMore(step, limit, st) == step <= limit /\ st # "FINISHED"

\* The while loop of run without the test of FINISHED
ContinueIgnoresFinished(step, limit, st) == step < limit

\* state_context whose finally clause restores nothing
FinallyKeepsState(previous, st) == st

\* run: the test of the while loop
Continue(step, limit, st) == step < limit /\ st # "FINISHED"

\* state_context: the state its finally clause leaves
Finally(previous, st) == previous

\* PlanningAgent.think: the prompt that carries the plan status
PlanPrompt(active, plan, prompt) ==
    IF active # "" THEN "CURRENT PLAN STATUS:\n" \o plan.text \o "\n\n" \o prompt
    ELSE prompt

\* A variant of the test after the loop that never sees the limit reached
AtMaxNever(step, limit) == FALSE

\* The test after the loop of run(): max_steps was reached
AtMax(step, limit) == step >= limit

\* run: the loop test; then either the next iteration up to the model
\* request of think(), or the end of run()
Loop(t) ==
    /\ pc[t] = "loop"
    /\ Scheduled(t)
    /\ IF Continue(current_step, max_steps, state)
       THEN \E mem1 \in {IF kind = "planning"
                           THEN add_message(messages, user_message(
                                    PlanPrompt(active_plan_id,
                                        get_plan(kind, active_plan_id, plans,
                                                 current_plan_id),
                                        next_step_prompt)))
                           ELSE messages} :
            \E ix \in {IF kind = "planning"
                         THEN _get_current_step_index(kind, active_plan_id, plans,
                                                      current_plan_id)
                         ELSE IndexResult(current_step_index, plans, current_plan_id)} :
               /\ current_step' = current_step + 1
               /\ current_step_index' = ix.index
               /\ plans' = ix.plans
               /\ current_plan_id' = ix.cur
               /\ messages' = (IF next_step_prompt # ""
                               THEN add_message(mem1, user_message(next_step_prompt))
                               ELSE mem1)
               /\ pc' = [pc EXCEPT ![t] = "think_wait"]
               /\ step_count' = [step_count EXCEPT ![t] = @ + 1]
               /\ UNCHANGED <<state, results, retval>>
       ELSE LET at_max == AtMax(current_step, max_steps)
                res == IF at_max
                       THEN Append(results[t], "Terminated: reached max steps ("
                                       \o ToString(max_steps) \o ")")
                       ELSE results[t]
            IN /\ current_step' = (IF at_max THEN 0 ELSE current_step)
               /\ results' = [results EXCEPT ![t] = res]
               /\ state' = Finally(previous_state[t], state)
               /\ retval' = [retval EXCEPT ![t] =
                     IF res # <<>> THEN Join(res, "\n") ELSE NO_STEPS]
               /\ pc' = [pc EXCEPT ![t] = "returned"]
               /\ UNCHANGED <<current_step_index, store, messages, step_count>>
    /\ UNCHANGED <<config, probe, next_step_prompt, tool_calls, step_execution_tracker,
                   previous_state, fault, cmd_idx, act_results, history, entry_step>>

\* The model client answers the request of think(): the rest of think()
\* and, if it returns true, act() up to its first tool execution
ThinkRespond(t, r) ==
    /\ pc[t] = "think_wait"
    /\ Scheduled(t)
    /\ asks >= ask_limit => r.raises
    /\ IF r.raises
       THEN /\ RaiseInScope(t, "model client error")
            /\ last_think' = [NoThink EXCEPT !.mode = tool_choices, !.raised = TRUE]
            /\ UNCHANGED <<asks, tool_calls, step_execution_tracker, messages,
                           next_step_prompt, results, cmd_idx, act_results>>
       ELSE \E calls \in {WithIds(r.calls, asks + 1)} :
            \E th \in {ThinkAfterResponse(tool_choices, messages, r.content, calls,
                                          r.malformed)} :
               /\ asks' = asks + 1
               /\ tool_calls' = calls
               /\ step_execution_tracker' =
                     (IF kind = "planning"
                      THEN TrackAfterThink(step_execution_tracker, th.ret, calls,
                                           current_step_index)
                      ELSE step_execution_tracker)
               /\ last_think' = [mode |-> tool_choices, content |-> r.content,
                                 calls |-> calls, malformed |-> r.malformed,
                                 raised |-> FALSE, ret |-> th.ret,
                                 added |-> SubSeq(th.mem, Len(messages) + 1, Len(th.mem))]
               /\ IF ~th.ret
                  THEN /\ FinishStep(t, th.mem, NO_ACTION)
                       /\ UNCHANGED <<state, fault, cmd_idx, act_results>>
                  ELSE IF calls = <<>>
                  THEN IF ActNoCalls(tool_choices, th.mem).raised
                       THEN /\ RaiseInScope(t, ActNoCalls(tool_choices, th.mem).text)
                            /\ messages' = th.mem
                            /\ UNCHANGED <<next_step_prompt, results, cmd_idx, act_results>>
                       ELSE /\ FinishStep(t, th.mem, ActNoCalls(tool_choices, th.mem).text)
                            /\ UNCHANGED <<state, fault, cmd_idx, act_results>>
                  ELSE /\ messages' = th.mem
                       /\ cmd_idx' = [cmd_idx EXCEPT ![t] = 1]
                       /\ act_results' = [act_results EXCEPT ![t] = <<>>]
                       /\ pc' = [pc EXCEPT ![t] = "exec"]
                       /\ UNCHANGED <<state, fault, next_step_prompt, results>>
    /\ UNCHANGED <<config, probe, current_step, current_step_index, store,
                   previous_state, retval, dispatched, last_exec, counts>>

\* act recording a result without the id of its call
ActMessageUntagged(call, result) == tool_message(result, "", call.name)

\* act recording a result under the name of the tool instead of the call id
ActMessageTaggedByName(call, result) == tool_message(result, call.name, call.name)

\* act: the tool message that records the result of a command
ActMessage(call, result) == tool_message(result, call.id, call.name)

\* act: execute_tool(command) has returned e; the tool message, and either
\* the next command or the end of act() and of the step
AfterExec(t, call, e) ==
    LET result == Observe(e.obs)
        mem == add_message(messages, ActMessage(call, result))
        res == Append(act_results[t], result)
    IN /\ state' = e.state
       /\ last_exec' = [call |-> call, obs |-> e.obs, ran |-> e.ran,
                        before |-> state, after |-> e.state]
       /\ IF cmd_idx[t] < Len(tool_calls)
          THEN /\ messages' = mem
               /\ act_results' = [act_results EXCEPT ![t] = res]
               /\ cmd_idx' = [cmd_idx EXCEPT ![t] = @ + 1]
               /\ pc' = [pc EXCEPT ![t] = "exec"]
               /\ plans' = e.plans
               /\ current_plan_id' = e.cur
               /\ UNCHANGED <<next_step_prompt, results, step_execution_tracker>>
          ELSE \E a \in {ActAfter(kind, active_plan_id, step_execution_tracker,
                                    tool_calls, Join(res, "\n\n"), e.plans, e.cur)} :
                  /\ step_execution_tracker' = a.tracker
                  /\ plans' = a.plans
                  /\ current_plan_id' = a.cur
                  /\ act_results' = [act_results EXCEPT ![t] = res]
                  /\ FinishStep(t, mem, Join(res, "\n\n"))
                  /\ UNCHANGED cmd_idx

\* act: execute_tool on the next command, up to the execution of a tool that
\* suspends
Exec(t) ==
    /\ pc[t] = "exec"
    /\ Scheduled(t)
    /\ LET call == tool_calls[cmd_idx[t]]
       IN /\ dispatched' = (IF Dispatches(kind, call) THEN Append(dispatched, call.id)
                            ELSE dispatched)
          /\ IF Suspends(kind, call)
             THEN /\ pc' = [pc EXCEPT ![t] = "exec_wait"]
                  /\ UNCHANGED <<state, messages, next_step_prompt, results,
                                 step_execution_tracker, store, cmd_idx, act_results,
                                 last_exec>>
             ELSE AfterExec(t, call, execute_tool(kind, call, "out", plans,
                                                  current_plan_id, state))
    /\ UNCHANGED <<config, probe, current_step, tool_calls, current_step_index,
                   previous_state, retval, fault, asks, last_think, counts>>

\* The suspended tool execution ends with outcome
ToolReturn(t, outcome) ==
    /\ pc[t] = "exec_wait"
    /\ Scheduled(t)
    /\ outcome \in ToolOutcomes
    /\ AfterExec(t, tool_calls[cmd_idx[t]],
                 execute_tool(kind, tool_calls[cmd_idx[t]], outcome, plans,
                              current_plan_id, state))
    /\ UNCHANGED <<config, probe, current_step, tool_calls, current_step_index,
                   previous_state, retval, fault, asks, dispatched, last_think,
                   counts>>

\* state_context: the finally clause, then the exception reaches the caller
Unwind(t) ==
    /\ pc[t] = "unwind"
    /\ Scheduled(t)
    /\ state' = Finally(previous_state[t], state)
    /\ pc' = [pc EXCEPT ![t] = "raised"]
    /\ UNCHANGED <<config, probe, current_step, next_step_prompt, messages, tool_calls,
                   step_execution_tracker, current_step_index, store,
                   previous_state, results, retval, fault, cmd_idx, act_results,
                   history, counts>>

Next ==
    \/ \E t \in Tasks, request \in Requests : Call(t, request)
    \/ \E t \in Tasks, r \in Responses(kind) : CipRespond(t, r)
    \/ \E t \in Tasks : Loop(t)
    \/ \E t \in Tasks, r \in Responses(kind) : ThinkRespond(t, r)
    \/ \E t \in Tasks : Exec(t)
    \/ \E t \in Tasks, outcome \in ToolOutcomes : ToolReturn(t, outcome)
    \/ \E t \in Tasks : Unwind(t)

Spec == Init /\ [][Next]_vars

\* ------------------------------------------------- the repeating model
\* One run() of task t1 on a constructed agent whose model client answers
\* every request with the same text and no tool call.
Quiet == Resp(FALSE, "thought", <<>>, FALSE)

QuietInit == InitWith(QuietSteps, QuietSteps + 1)

QuietNext ==
    \/ \E request \in Requests : Call("t1", request)
    \/ CipRespond("t1", Quiet)
    \/ Loop("t1")
    \/ ThinkRespond("t1", Quiet)
    \/ Unwind("t1")

QuietSpec == QuietInit /\ [][QuietNext]_vars

\* ------------------------------------------------- the finishing model
\* One run() of task t1 on a constructed agent whose model client answers
\* every request with one valid call of the terminate tool.
Finishing == Resp(FALSE, "", <<TermOk>>, FALSE)

FinishNext ==
    \/ \E request \in Requests : Call("t1", request)
    \/ CipRespond("t1", Finishing)
    \/ Loop("t1")
    \/ ThinkRespond("t1", Finishing)
    \/ Exec("t1")

FinishSpec == QuietInit /\ [][FinishNext]_vars

\* ------------------------------------------------- the tracked model
\* One run() of task t1 on a planning agent.  The model client answers
\* create_initial_plan with a plan whose text, once rendered, holds a line
\* Steps: followed by a line with [ ] (a step text of several lines), or with
\* a plain plan; it answers think() with ordinary, planning and special calls.
PlanCrafted ==
    CallSpec(PlanningName, TRUE, TRUE,
             PlanCmd("create", ActivePlan, "Trip", <<"go\nSteps:", "[ ] pack">>,
                     NoIndex, "", ""))

\* A plan of one step whose rendering holds the line with [ ] two lines
\* after the line Steps:
PlanShifted ==
    CallSpec(PlanningName, TRUE, TRUE,
             PlanCmd("create", ActivePlan, "Trip", <<"go\nSteps:\n-\n[ ] pack">>,
                     NoIndex, "", ""))

TrackPlans ==
    { Resp(FALSE, "", <<PlanCreate>>, FALSE),
      Resp(FALSE, "", <<PlanCrafted>>, FALSE),
      Resp(FALSE, "", <<PlanShifted>>, FALSE) }

TrackAnswers ==
    { Resp(FALSE, "thought", <<>>, FALSE),
      Resp(FALSE, "thought", <<OrdOk>>, FALSE),
      Resp(FALSE, "", <<Ghost, TermOk>>, FALSE),
      Resp(FALSE, "", <<TermOk, OrdOk>>, FALSE),
      Resp(FALSE, "", <<PlanMark, OrdOk>>, FALSE),
      Resp(FALSE, "", <<OrdOk, PlanDelete>>, FALSE) }

TrackInit == InitWith(MaxSteps, MaxSteps + 1) /\ kind = "planning"

TrackNext ==
    \/ \E request \in Requests : Call("t1", request)
    \/ \E r \in TrackPlans : CipRespond("t1", r)
    \/ Loop("t1")
    \/ \E r \in TrackAnswers : ThinkRespond("t1", r)
    \/ Exec("t1")
    \/ \E outcome \in ToolOutcomes : ToolReturn("t1", outcome)
    \/ Unwind("t1")

TrackSpec == TrackInit /\ [][TrackNext]_vars

\* ------------------------------------------------- the configured special tool
\* One run() of task t1 on a ToolCallAgent constructed with
\* special_tool_names = [terminate, create_chat_completion]: the second
\* special tool is one whose execution can fail.
ConfiguredSpecialTools == {TerminateName, OrdinaryName}

SpecialAnswers ==
    { Resp(FALSE, "", <<TermOk>>, FALSE),
      Resp(FALSE, "thought", <<NoName, TermBadArgs>>, FALSE),
      Resp(FALSE, "thought", <<OrdOk>>, FALSE),
      Resp(FALSE, "", <<OrdBadJson, Ghost>>, FALSE) }

SpecialInit == InitOf(MaxSteps, MaxSteps, ConfiguredSpecialTools) /\ kind = "toolcall"

SpecialNext ==
    \/ \E request \in Requests : Call("t1", request)
    \/ Loop("t1")
    \/ \E r \in SpecialAnswers : ThinkRespond("t1", r)
    \/ Exec("t1")
    \/ \E outcome \in ToolOutcomes : ToolReturn("t1", outcome)

SpecialSpec == SpecialInit /\ [][SpecialNext]_vars

\* ------------------------------------------------- the methods, one by one
\* The public methods of a constructed agent and of its tool collection,
\* called directly on an agent no run() has touched: update_memory builds a
\* Memory, the other calls read it.  probe keeps the call and its outcome.
Roles == {"user", "system", "assistant", "bogus"}
Contents == {"", "again"}
DirectNames == {TerminateName, PlanningName, OrdinaryName, UnknownName, ""}

Probe(op, arg, before, raised, failure, truth, text) ==
    [op |-> op, arg |-> arg, before |-> before, raised |-> raised,
     failure |-> failure, truth |-> truth, text |-> text]

\* message_map of BaseAgent.update_memory
message_map(role, content) ==
    CASE role = "user" -> user_message(content)
      [] role = "system" -> system_message(content)
      [] OTHER -> assistant_message(content)

\* BaseAgent.update_memory(role, content)
UpdateMemory(role, content) ==
    /\ Len(messages) < MaxMem
    /\ IF role \notin {"user", "system", "assistant", "tool"}
       THEN /\ probe' = Probe("update_memory", role, messages, TRUE, FALSE, FALSE,
                              "Unsupported message role: " \o role)
            /\ UNCHANGED messages
       ELSE /\ messages' = add_message(messages, message_map(role, content))
            /\ probe' = Probe("update_memory", role, messages, FALSE, FALSE, FALSE, content)
    /\ UNCHANGED <<config, state, current_step, next_step_prompt, tool_calls,
                   step_execution_tracker, current_step_index, store, locals,
                   history, counts>>

\* ToolCallAgent.act() with the empty tool_calls of a constructed agent
ActDirect ==
    /\ tool_calls = <<>>
    /\ probe' = Probe("act", tool_choices, messages,
                      ActNoCalls(tool_choices, messages).raised, FALSE, FALSE,
                      ActNoCalls(tool_choices, messages).text)
    /\ UNCHANGED <<config, agent, store, locals, history, counts>>

\* BaseAgent.is_stuck()
IsStuckDirect ==
    /\ probe' = Probe("is_stuck", "", messages, FALSE, FALSE, is_stuck(messages), "")
    /\ UNCHANGED <<config, agent, store, locals, history, counts>>

\* ToolCollection.execute(name=name, tool_input={})
ExecuteDirect(name, outcome) ==
    \E r \in {ToolCollectionExecute(kind, name, ToolCallOf("", name, TRUE, TRUE, NoCmd),
                                    outcome, plans, current_plan_id)} :
        /\ probe' = Probe("execute", name, messages, r.raised, r.failure, r.truthy, r.str)
        /\ plans' = r.plans
        /\ current_plan_id' = r.cur
        /\ UNCHANGED <<config, agent, locals, history, counts>>

UnitNext ==
    \/ \E role \in Roles, content \in Contents : UpdateMemory(role, content)
    \/ ActDirect
    \/ IsStuckDirect
    \/ \E name \in DirectNames, outcome \in ToolOutcomes : ExecuteDirect(name, outcome)

UnitSpec == Init /\ [][UnitNext]_vars

\* ------------------------------------------------- the planning tool, call by call
\* PlanningTool.execute called directly, one command at a time, on the tool
\* of a constructed planning agent.  probe keeps the command and whether it
\* was rejected (a ToolError).
PlanIds == {"", "p1", "p2"}
Titles == {"", "Trip"}
StepLists == {<<>>, <<"book", "pack", "fly">>, <<"book", "rest">>}
StepIndexes == {NoIndex, <<0 - 1>>, <<1>>, <<3>>}
\* step_status and step_notes of a mark_step command
MarkInputs == {<<"", "">>, <<"completed", "">>, <<"", "late">>, <<"bogus", "late">>}

PlanInit == InitWith(1, 0) /\ kind = "planning" /\ tool_choices = "auto"

PlanProbe(c, r) ==
    [op |-> c.command, arg |-> c.plan_id, cmd |-> c, raised |-> FALSE,
     failure |-> ~r.ok, truth |-> r.ok, text |-> "", before |-> <<>>]

\* PlanningTool.execute(command=..., plan_id=..., ...)
PlanCall(command, pid, title, steps, idx, status, notes) ==
    \E r \in {PlanningExecute(plans, current_plan_id,
                    PlanCmd(command, pid, title, steps, idx, status, notes))} :
        /\ plans' = r.plans
        /\ current_plan_id' = r.cur
        /\ probe' = PlanProbe(PlanCmd(command, pid, title, steps, idx, status, notes), r)
        /\ UNCHANGED <<config, agent, locals, history, counts>>

CreateCmd(pid, title, steps) == PlanCall("create", pid, title, steps, NoIndex, "", "")
UpdateCmd(pid, title, steps) == PlanCall("update", pid, title, steps, NoIndex, "", "")
ListCmd(pid) == PlanCall("list", pid, "", <<>>, NoIndex, "", "")
GetCmd(pid) == PlanCall("get", pid, "", <<>>, NoIndex, "", "")
SetActiveCmd(pid) == PlanCall("set_active", pid, "", <<>>, NoIndex, "", "")
MarkStepCmd(pid, idx, status, notes) == PlanCall("mark_step", pid, "", <<>>, idx, status, notes)
DeleteCmd(pid) == PlanCall("delete", pid, "", <<>>, NoIndex, "", "")

PlanNext ==
    \/ \E pid \in PlanIds, title \in Titles, steps \in StepLists : CreateCmd(pid, title, steps)
    \/ \E pid \in PlanIds, title \in Titles, steps \in StepLists : UpdateCmd(pid, title, steps)
    \/ \E pid \in PlanIds : ListCmd(pid)
    \/ \E pid \in PlanIds : GetCmd(pid)
    \/ \E pid \in PlanIds : SetActiveCmd(pid)
    \/ \E pid \in PlanIds, idx \in StepIndexes, m \in MarkInputs :
          MarkStepCmd(pid, idx, m[1], m[2])
    \/ \E pid \in PlanIds : DeleteCmd(pid)

PlanSpec == PlanInit /\ [][PlanNext]_vars

\* ------------------------------------------------- the documented rendering
\* The rendering of a plan as the interchange format is documented: a
\* header, a progress summary, a line Steps: and one line per step,
\* <index>. <marker> <step text>, followed by a note line if the step has a
\* note.
RECURSIVE DocumentedSteps(_, _)
DocumentedSteps(plan, i) ==
    IF i > Len(plan.steps) THEN ""
    ELSE ToString(i - 1) \o ". " \o get_status_marks(plan.step_statuses[i]) \o " "
            \o plan.steps[i] \o "\n"
         \o (IF plan.step_notes[i] # "" THEN "   Notes: " \o plan.step_notes[i] \o "\n"
             ELSE "")
         \o DocumentedSteps(plan, i + 1)

DocumentedPlan(plan) ==
    "Plan: " \o plan.title \o " (ID: " \o plan.plan_id \o ")\n\n"
       \o "Progress: " \o ToString(CountStatus(plan.step_statuses, "completed")) \o "/"
       \o ToString(Len(plan.steps)) \o " steps completed\n\n"
       \o "Steps:\n"
       \o DocumentedSteps(plan, 1)

\* The plan p1 of three steps, its steps marked one command at a time, and
\* the lookup of the planning agent applied to its documented rendering.
LookupMarks == {<<"completed", "">>, <<"completed", "late">>, <<"blocked", "late">>}

\* The scan of _get_current_step_index on the documented rendering of the
\* plan pid, with the mark_step it issues
LookupDirect(pid) ==
    /\ HasPlan(plans, pid)
    /\ \E r \in {IndexInLines(kind, pid, splitlines(DocumentedPlan(PlanOf(plans, pid))),
                               plans, current_plan_id)} :
          /\ plans' = r.plans
          /\ current_plan_id' = r.cur
          /\ probe' = [op |-> "lookup", arg |-> pid, index |-> r.index, before |-> plans]
    /\ UNCHANGED <<config, agent, locals, history, counts>>

LookupNext ==
    \/ CreateCmd("p1", "Trip", <<"book", "pack", "fly">>)
    \/ \E i \in 0..2, m \in LookupMarks : MarkStepCmd("p1", <<i>>, m[1], m[2])
    \/ LookupDirect("p1")

LookupSpec == PlanInit /\ [][LookupNext]_vars

\* ------------------------------------------------- the registry, call by call
\* add_tool and add_tools called on the collection of a constructed agent
NewTools == {Tool(n, i) : n \in {OrdinaryName, "extra"}, i \in {"first", "second"}}

AddTool(tool) ==
    /\ Len(registry.tools) < MaxTools
    /\ registry' = add_tool(registry, tool)
    /\ UNCHANGED <<kind, tool_choices, max_steps, active_plan_id, ask_limit, shared,
                   special_tool_names, agent, store, locals, history, counts, probe>>

AddTools(first, second) ==
    /\ Len(registry.tools) + 2 <= MaxTools
    /\ registry' = add_tools(registry, <<first, second>>)
    /\ UNCHANGED <<kind, tool_choices, max_steps, active_plan_id, ask_limit, shared,
                   special_tool_names, agent, store, locals, history, counts, probe>>

RegistryNext ==
    \/ \E tool \in NewTools : AddTool(tool)
    \/ \E first \in NewTools, second \in NewTools : AddTools(first, second)

RegistrySpec == Init /\ [][RegistryNext]_vars


\* ------------------------------------------------- the session tools
\* Concurrent callers of one Bash, one Terminal and one BrowserUseTool.  A
\* caller is in one call at a time; each action runs a call from one await
\* to the next.
program == <<kind, tool_choices, max_steps, active_plan_id, ask_limit, registry,
             special_tool_names, agent, store, locals, history, counts, probe>>

\* The positions in which a caller is outside every call
Back == {"idle", "done", "unstarted", "exited", "closed"}

CanCall(c) ==
    /\ callers[c].at \in Back
    /\ callers[c].calls < MaxCalls
    /\ manus[c].name = ""

\* The caller enters a call of tool and reaches position at, on session s
Entered(c, tool, at, s) ==
    [callers EXCEPT ![c] = [tool |-> tool, at |-> at, session |-> s,
                            calls |-> callers[c].calls + 1]]

Moved(c, at) == [callers EXCEPT ![c].at = at]

\* _BashSession.__init__
_BashSession == [started |-> FALSE, terminated |-> FALSE, exited |-> FALSE]

\* Bash.execute: self._session = _BashSession()
NewSession(b) ==
    [sessions |-> Append(b.sessions, _BashSession), session |-> Len(b.sessions) + 1]

\* _BashSession.stop on a started session: terminate unless it has exited
Stopped(b) ==
    IF b.session # 0 /\ ~b.sessions[b.session].exited
    THEN [b EXCEPT !.sessions[b.session].terminated = TRUE]
    ELSE b

\* _BashSession.run up to its first await: the ToolError of a session that
\* has not started, the error result of a process that has exited, or the
\* command written to the process
BashRun(b) ==
    IF ~b.sessions[b.session].started THEN "unstarted"
    ELSE IF b.sessions[b.session].exited THEN "exited"
    ELSE "running"

\* Bash.execute(command, restart) up to its first await
BashExecute(c, restart) ==
    /\ CanCall(c)
    /\ IF restart
       THEN IF bash_tool.session # 0 /\ ~bash_tool.sessions[bash_tool.session].started
            THEN /\ callers' = Entered(c, "bash", "unstarted", bash_tool.session)
                 /\ UNCHANGED bash_tool
            ELSE /\ bash_tool' = NewSession(Stopped(bash_tool))
                 /\ callers' = Entered(c, "bash", "restarting", Len(bash_tool.sessions) + 1)
       ELSE IF bash_tool.session = 0
            THEN /\ bash_tool' = NewSession(bash_tool)
                 /\ callers' = Entered(c, "bash", "starting", Len(bash_tool.sessions) + 1)
            ELSE /\ callers' = Entered(c, "bash", BashRun(bash_tool), bash_tool.session)
                 /\ UNCHANGED bash_tool
    /\ UNCHANGED <<program, manus, terminal_tool, browser_tool>>

\* _BashSession.start returns to the caller that awaited it: the session it
\* made is started; then the end of a restart, or run on self._session
BashStarted(c) ==
    /\ callers[c].tool = "bash"
    /\ callers[c].at \in {"starting", "restarting"}
    /\ \E b \in {[bash_tool EXCEPT !.sessions[callers[c].session].started = TRUE]} :
          /\ bash_tool' = b
          /\ callers' = (IF callers[c].at = "restarting" THEN Moved(c, "done")
                         ELSE [callers EXCEPT ![c].at = BashRun(b),
                                              ![c].session = b.session])
    /\ UNCHANGED <<program, manus, terminal_tool, browser_tool>>

\* The sentinel of the command of the caller shows in the output
BashRunEnds(c) ==
    /\ callers[c].tool = "bash"
    /\ callers[c].at = "running"
    /\ callers' = Moved(c, "done")
    /\ UNCHANGED <<program, manus, bash_tool, terminal_tool, browser_tool>>

\* The process of a terminated session exits
BashExited(s) ==
    /\ s \in 1..Len(bash_tool.sessions)
    /\ bash_tool.sessions[s].terminated
    /\ ~bash_tool.sessions[s].exited
    /\ bash_tool' = [bash_tool EXCEPT !.sessions[s].exited = TRUE]
    /\ UNCHANGED <<program, manus, callers, terminal_tool, browser_tool>>

\* Terminal.execute(command) of one command up to its first await: cd is
\* handled at once, any other command asks for the lock
TerminalExecute(c, cd) ==
    /\ CanCall(c)
    /\ IF cd
       THEN /\ terminal_tool' = [terminal_tool EXCEPT !.current_path = "/" \o c]
            /\ callers' = Entered(c, "terminal", "done", 0)
       ELSE IF terminal_tool.lock = ""
            THEN /\ terminal_tool' = [terminal_tool EXCEPT !.lock = c]
                 /\ callers' = Entered(c, "terminal", "spawning", 0)
            ELSE /\ callers' = Entered(c, "terminal", "waiting", 0)
                 /\ UNCHANGED terminal_tool
    /\ UNCHANGED <<program, manus, bash_tool, browser_tool>>

\* The lock of the Terminal is handed to a waiting caller
TerminalAcquire(c) ==
    /\ callers[c].tool = "terminal"
    /\ callers[c].at = "waiting"
    /\ terminal_tool.lock = ""
    /\ terminal_tool' = [terminal_tool EXCEPT !.lock = c]
    /\ callers' = Moved(c, "spawning")
    /\ UNCHANGED <<program, manus, bash_tool, browser_tool>>

\* create_subprocess_shell returns the process, or raises: the except and
\* finally clauses run and the lock is released
TerminalSpawned(c, ok) ==
    /\ callers[c].tool = "terminal"
    /\ callers[c].at = "spawning"
    /\ IF ok
       THEN /\ terminal_tool' = [terminal_tool EXCEPT !.process = c]
            /\ callers' = Moved(c, "communicating")
       ELSE /\ terminal_tool' = [terminal_tool EXCEPT !.process = "", !.lock = ""]
            /\ callers' = Moved(c, "done")
    /\ UNCHANGED <<program, manus, bash_tool, browser_tool>>

\* The process the caller awaits has ended, in communicate() of execute or
\* in wait() of close: the finally clause, the release of the lock
TerminalDone(c) ==
    /\ callers[c].tool = "terminal"
    /\ callers[c].at \in {"communicating", "terminating"}
    /\ terminal_tool' = [terminal_tool EXCEPT !.process = "", !.lock = ""]
    /\ callers' = Moved(c, IF callers[c].at = "terminating" THEN "closed" ELSE "done")
    /\ UNCHANGED <<program, manus, bash_tool, browser_tool>>

\* Terminal.close under its lock: a process is terminated and awaited;
\* without a process close returns at once and the lock is free again
TerminalClosing(c) ==
    IF terminal_tool.process # ""
    THEN [lock |-> c, at |-> "terminating"]
    ELSE [lock |-> "", at |-> "closed"]

\* Terminal.close() up to its first await.  session tells whether a command
\* was running when close was called.
TerminalClose(c) ==
    /\ CanCall(c)
    /\ LET running == IF terminal_tool.process # "" THEN 1 ELSE 0
       IN IF terminal_tool.lock = ""
          THEN /\ terminal_tool' = [terminal_tool EXCEPT !.lock = TerminalClosing(c).lock]
               /\ callers' = Entered(c, "terminal", TerminalClosing(c).at, running)
          ELSE /\ callers' = Entered(c, "terminal", "waiting_close", running)
               /\ UNCHANGED terminal_tool
    /\ UNCHANGED <<program, manus, bash_tool, browser_tool>>

\* The lock of the Terminal is handed to a waiting close()
TerminalCloseAcquire(c) ==
    /\ callers[c].tool = "terminal"
    /\ callers[c].at = "waiting_close"
    /\ terminal_tool.lock = ""
    /\ terminal_tool' = [terminal_tool EXCEPT !.lock = TerminalClosing(c).lock]
    /\ callers' = Moved(c, TerminalClosing(c).at)
    /\ UNCHANGED <<program, manus, bash_tool, browser_tool>>

\* BrowserUseTool under its lock: _ensure_browser_initialized awaits only
\* when there is no context yet
BrowserLocked(c, cleanup) ==
    IF cleanup THEN "closing"
    ELSE IF browser_tool.browser /\ browser_tool.context THEN "acting"
    ELSE "init"

\* async with self.lock of execute or cleanup: the caller takes the lock or
\* waits for it
BrowserEnter(c, cleanup) ==
    IF browser_tool.lock = ""
    THEN /\ browser_tool' = [browser_tool EXCEPT !.lock = c]
         /\ callers' = Entered(c, "browser", BrowserLocked(c, cleanup), 0)
    ELSE /\ callers' = Entered(c, "browser",
                               IF cleanup THEN "waiting_cleanup" ELSE "waiting", 0)
         /\ UNCHANGED browser_tool

\* BrowserUseTool.execute or cleanup up to its first await
BrowserCall(c, cleanup) ==
    /\ CanCall(c)
    /\ BrowserEnter(c, cleanup)
    /\ UNCHANGED <<program, manus, bash_tool, terminal_tool>>

\* The lock of the BrowserUseTool is handed to a waiting caller
BrowserAcquire(c) ==
    /\ callers[c].tool = "browser"
    /\ callers[c].at \in {"waiting", "waiting_cleanup"}
    /\ browser_tool.lock = ""
    /\ browser_tool' = [browser_tool EXCEPT !.lock = c]
    /\ callers' = Moved(c, BrowserLocked(c, callers[c].at = "waiting_cleanup"))
    /\ UNCHANGED <<program, manus, bash_tool, terminal_tool>>

\* _ensure_browser_initialized: the context is made, or making it raises and
\* execute returns the error under its except clause
BrowserInitialized(c, ok) ==
    /\ callers[c].tool = "browser"
    /\ callers[c].at = "init"
    /\ IF ok
       THEN /\ browser_tool' = [browser_tool EXCEPT !.browser = TRUE, !.context = TRUE]
            /\ callers' = Moved(c, "acting")
       ELSE /\ browser_tool' = [browser_tool EXCEPT !.browser = TRUE, !.lock = ""]
            /\ callers' = Moved(c, "done")
    /\ UNCHANGED <<program, manus, bash_tool, terminal_tool>>

\* The action on the page returns or raises: execute returns, the lock is
\* released
BrowserActed(c) ==
    /\ callers[c].tool = "browser"
    /\ callers[c].at = "acting"
    /\ browser_tool' = [browser_tool EXCEPT !.lock = ""]
    /\ callers' = Moved(c, "done")
    /\ UNCHANGED <<program, manus, bash_tool, terminal_tool>>

\* cleanup: context and browser are closed, the lock is released
BrowserClosed(c) ==
    /\ callers[c].tool = "browser"
    /\ callers[c].at = "closing"
    /\ browser_tool' = [lock |-> "", browser |-> FALSE, context |-> FALSE]
    /\ callers' = Moved(c, "done")
    /\ UNCHANGED <<program, manus, bash_tool, terminal_tool>>

SessionInit == InitWith(1, 0) /\ kind = "toolcall" /\ tool_choices = "auto"

SessionNext ==
    \/ \E c \in Callers, restart \in BOOLEAN : BashExecute(c, restart)
    \/ \E c \in Callers : BashStarted(c)
    \/ \E c \in Callers : BashRunEnds(c)
    \/ \E s \in 1..(2 * MaxCalls) : BashExited(s)
    \/ \E c \in Callers, cd \in BOOLEAN : TerminalExecute(c, cd)
    \/ \E c \in Callers : TerminalAcquire(c)
    \/ \E c \in Callers, ok \in BOOLEAN : TerminalSpawned(c, ok)
    \/ \E c \in Callers : TerminalDone(c)
    \/ \E c \in Callers : TerminalClose(c)
    \/ \E c \in Callers : TerminalCloseAcquire(c)
    \/ \E c \in Callers, cleanup \in BOOLEAN : BrowserCall(c, cleanup)
    \/ \E c \in Callers : BrowserAcquire(c)
    \/ \E c \in Callers, ok \in BOOLEAN : BrowserInitialized(c, ok)
    \/ \E c \in Callers : BrowserActed(c)
    \/ \E c \in Callers : BrowserClosed(c)

SessionSpec == SessionInit /\ [][SessionNext]_vars

\* ------------------------------------------------------- the Manus agent
\* Manus extends ToolCallAgent: its collection holds BrowserUseTool, and
\* its _handle_special_tool closes the browser before the handling of the
\* parent class.  Each caller is a run of the agent that executes one tool
\* call at a time, or a user of the BrowserUseTool of the collection.
BrowserName == "browser_use"
PythonName == "python_execute"

\* Manus.available_tools: the names that matter to the browser
ManusTools == {PythonName, BrowserName, TerminateName}

\* Everything of the program but the agent state and the session tools
manus_frame == <<kind, tool_choices, max_steps, active_plan_id, ask_limit, registry,
                 special_tool_names, current_step, next_step_prompt, messages,
                 tool_calls, step_execution_tracker, current_step_index, store,
                 locals, history, counts, probe, bash_tool, terminal_tool>>

\* Manus._handle_special_tool up to its first await: cleanup() of the
\* BrowserUseTool of the collection, whatever the name of the tool
ManusHandleSpecialTool(c, name) ==
    /\ BrowserEnter(c, TRUE)
    /\ manus' = [manus EXCEPT ![c] = [name |-> name, at |-> "cleanup"]]

\* ToolCallAgent.execute_tool of Manus on a call of name, up to its first
\* await: BrowserUseTool.execute asks for the lock; any other tool returns
\* its result at once (ok) and the handling starts, or raises and the except
\* clause returns the error
ManusExecuteTool(c, name, ok) ==
    /\ CanCall(c)
    /\ name \in ManusTools
    /\ IF name = BrowserName
       THEN /\ BrowserEnter(c, FALSE)
            /\ manus' = [manus EXCEPT ![c] = [name |-> name, at |-> "tool"]]
       ELSE IF ok
       THEN ManusHandleSpecialTool(c, name)
       ELSE /\ callers' = Entered(c, name, "done", 0)
            /\ UNCHANGED <<browser_tool, manus>>
    /\ UNCHANGED <<state, manus_frame>>

\* BrowserUseTool.execute has returned its result to execute_tool: the
\* handling starts
ManusBrowsed(c) ==
    /\ manus[c].at = "tool"
    /\ callers[c].at = "done"
    /\ ManusHandleSpecialTool(c, manus[c].name)
    /\ UNCHANGED <<state, manus_frame>>

\* cleanup() has returned: super()._handle_special_tool, then execute_tool
\* returns the observation
ManusHandled(c) ==
    /\ manus[c].at = "cleanup"
    /\ callers[c].at = "done"
    /\ state' = _handle_special_tool(manus[c].name, state)
    /\ manus' = [manus EXCEPT ![c] = NoManus]
    /\ UNCHANGED <<manus_frame, callers, browser_tool>>

ManusInit == InitWith(1, 0) /\ kind = "toolcall" /\ tool_choices = "auto"

ManusNext ==
    \/ \E c \in Callers, name \in ManusTools, ok \in BOOLEAN : ManusExecuteTool(c, name, ok)
    \/ \E c \in Callers : ManusBrowsed(c)
    \/ \E c \in Callers : ManusHandled(c)
    \/ \E c \in Callers : BrowserCall(c, FALSE)
    \/ \E c \in Callers : BrowserAcquire(c)
    \/ \E c \in Callers, ok \in BOOLEAN : BrowserInitialized(c, ok)
    \/ \E c \in Callers : BrowserActed(c)
    \/ \E c \in Callers : BrowserClosed(c)

ManusSpec == ManusInit /\ [][ManusNext]_vars

\* ------------------------------------------------------------------ claims
\* C1: when run() leaves the scope of state_context, by returning (after
\* max_steps or after a special tool) or by raising, the agent state is the
\* state from before the scope was entered, which is IDLE; it is not RUNNING.
C1_StateRestoredAfterRun ==
    [][\A t \in Tasks :
          (pc[t] \in {"loop", "unwind"} /\ pc'[t] \in {"returned", "raised"})
             => (state' = previous_state[t] /\ state' = "IDLE")]_vars

\* A run that ended through a special tool before its step limit, state IDLE
C1_Witness ==
    \E t \in Tasks :
        /\ pc[t] = "returned"
        /\ step_count[t] >= 1
        /\ entry_step[t] + step_count[t] < max_steps
        /\ state = "IDLE"

\* C2: a run that entered the scope with current_step = 0 calls step() at
\* most max_steps times, whatever the model client and the tools answer.
C2_AtMostMaxSteps ==
    \A t \in Tasks : entry_step[t] = 0 => step_count[t] <= max_steps

\* A run from current_step = 0 that returned after max_steps = MaxSteps steps
C2_Witness ==
    \E t \in Tasks :
        /\ pc[t] = "returned"
        /\ entry_step[t] = 0
        /\ max_steps = MaxSteps
        /\ step_count[t] = max_steps

\* C3: while the state is FINISHED no think() starts (the loop does not begin
\* another step) and no act() starts.
C3_NoStepAfterFinished ==
    [][\A t \in Tasks :
          state = "FINISHED"
             => /\ ~(pc[t] = "loop" /\ pc'[t] = "think_wait")
                /\ ~(pc[t] = "think_wait" /\ pc'[t] # "think_wait" /\ last_think'.ret)]_vars

\* The loop test is reached in state FINISHED with steps left
C3_Witness ==
    \E t \in Tasks : pc[t] = "loop" /\ state = "FINISHED" /\ current_step < max_steps

\* C4: run() called while the state is not IDLE raises the invalid-start
\* fault at once and changes nothing: no message is appended, no model request
\* or tool execution is issued, state and current_step keep their values.
C4_RejectedRunChangesNothing ==
    [][\A t \in Tasks :
          (pc[t] = "idle" /\ pc'[t] # "idle" /\ state # "IDLE")
             => /\ pc'[t] = "raised"
                /\ fault'[t] = INVALID_START \o state
                /\ messages' = messages
                /\ asks' = asks
                /\ dispatched' = dispatched
                /\ state' = state
                /\ current_step' = current_step]_vars

\* C5: a fault that escapes step() sets the state to ERROR; the unwinding
\* scope then restores the state from before the run and hands the same fault
\* to the caller of run(); the run executes no further step.
C5_FaultUnwindsScope ==
    [][\A t \in Tasks :
          /\ (pc[t] # "unwind" /\ pc'[t] = "unwind")
                => (state' = "ERROR" /\ fault'[t] # "")
          /\ pc[t] = "unwind"
                => (/\ pc'[t] \in {"unwind", "raised"}
                    /\ pc'[t] = "raised"
                          => (state' = previous_state[t] /\ fault'[t] = fault[t]))
          /\ pc[t] = "raised"
                => (/\ pc'[t] = "raised"
                    /\ fault'[t] = fault[t]
                    /\ step_count'[t] = step_count[t])]_vars

\* The required-tool-call fault of act has reached the caller, state restored
C5_Witness ==
    \E t \in Tasks :
        /\ pc[t] = "raised"
        /\ fault[t] = TOOL_CALL_REQUIRED
        /\ step_count[t] >= 1
        /\ state = "IDLE"

\* C6: think() never propagates a fault: whatever the model client does,
\* think returns a boolean, and on a fault it appends one assistant message
\* that reports the error and returns false.
C6_ThinkNeverRaises ==
    /\ ~last_think.raised
    /\ (last_think.malformed /\ last_think.mode # "none")
          => /\ ~last_think.ret
             /\ Len(last_think.added) = 1
             /\ last_think.added[1].role = "assistant"
             /\ Prefix(last_think.added[1].content, 5) = "Error"

\* C7: execute_tool turns an unknown tool name, an unparseable argument
\* payload and an exception raised while dispatching into an error observation
\* that names the tool, with the agent state unchanged; an unparseable payload
\* yields the Invalid JSON notice and is not dispatched; act appends the
\* observation to Memory; no fault of execute_tool unwinds the run.
C7_ExecuteToolContainsFaults ==
    LET c == last_exec.call
        unknown == c.name # "" /\ c.name \notin tool_map(kind)
        badjson == c.name \in tool_map(kind) /\ ~c.json
        crashed == Dispatches(kind, c) /\ ~last_exec.ran
    IN /\ (unknown \/ badjson \/ crashed)
            => /\ Prefix(last_exec.obs, 6) = "Error:"
               /\ Contains(last_exec.obs, c.name)
               /\ last_exec.after = last_exec.before
               /\ \E i \in 1..Len(messages) :
                     messages[i] = tool_message(Observe(last_exec.obs), c.id, c.name)
       /\ badjson
            => /\ Contains(last_exec.obs, "Invalid JSON")
               /\ \A i \in 1..Len(dispatched) : dispatched[i] # c.id
       /\ \A t \in Tasks :
             pc[t] = "unwind" => fault[t] \in {"model client error", TOOL_CALL_REQUIRED}

\* After a call of an unknown tool the run goes on to its next loop test
C7_Witness ==
    /\ last_exec.call.name = UnknownName
    /\ \E t \in Tasks : pc[t] = "loop" /\ state = "RUNNING" /\ step_count[t] >= 1

\* C8: act executes the tool calls of the answer one at a time in their
\* order: while call k is the current one, Memory holds exactly one tool
\* message for each of the calls 1..k-1, in that order and tagged with the id
\* and the name of its call, and no later call has been dispatched; when act has
\* ended, the same holds of all the calls.
C8_ToolMessagesInCallOrder ==
    LET ids == {tool_calls[i].id : i \in 1..Len(tool_calls)}
        Mine(m) == m.role = "tool" /\ m.tool_call_id \in ids
        mine == SelectSeq(messages, Mine)
        Done(n) ==
            /\ Len(mine) = n
            /\ \A i \in 1..n : /\ mine[i].tool_call_id = tool_calls[i].id
                               /\ mine[i].name = tool_calls[i].name
        Sent(id) == \E i \in 1..Len(dispatched) : dispatched[i] = id
    IN \A t \in Tasks :
          /\ pc[t] \in {"exec", "exec_wait"}
                => /\ Done(cmd_idx[t] - 1)
                   /\ \A i \in 1..Len(tool_calls) :
                         Sent(tool_calls[i].id)
                            => (i < cmd_idx[t] \/ (i = cmd_idx[t] /\ pc[t] = "exec_wait"))
          /\ (pc[t] = "loop" /\ step_count[t] >= 1 /\ last_think.ret)
                => Done(Len(tool_calls))

\* The second call of an answer is being executed, the first has ended
C8_Witness ==
    \E t \in Tasks : pc[t] = "exec_wait" /\ cmd_idx[t] = 2 /\ Len(tool_calls) = 2

C10_ThinkReturnValue ==
    LET th == last_think
    IN (th.mode # "" /\ ~th.raised /\ ~th.malformed)
          => /\ th.mode = "none"
                   => /\ th.ret = (th.content # "")
                      /\ th.added = (IF th.content # ""
                                     THEN <<assistant_message(th.content)>> ELSE <<>>)
             /\ th.mode = "required" => th.ret
             /\ (th.mode = "auto" /\ th.calls = <<>>) => (th.ret = (th.content # ""))
             /\ (th.mode = "auto" /\ th.calls # <<>>) => th.ret
             /\ th.mode # "none"
                   => /\ Len(th.added) = 1
                      /\ th.added[1].role = "assistant"
                      /\ th.added[1].content = th.content
                      /\ th.added[1].tool_calls = th.calls

\* In mode AUTO an answer without text and without tool calls made think
\* return false
C10_Witness ==
    /\ last_think.mode = "auto"
    /\ ~last_think.raised
    /\ last_think.calls = <<>>
    /\ last_think.content = ""
    /\ ~last_think.ret

C12_NoticeOnlyWithoutFinish ==
    [][\A t \in Tasks :
          (pc[t] = "loop" /\ pc'[t] = "returned") =>
             /\ (results'[t] # results[t]) <=>
                    (current_step >= max_steps /\ state # "FINISHED")
             /\ (state = "FINISHED" /\ current_step > 0) => current_step' = current_step]_vars

\* C13: with max_steps = N and a model that under tool-choice AUTO always
\* returns non-empty content and no tool calls, a run on a fresh agent
\* executes exactly N steps, its trace ends with the max-steps termination
\* notice, and after run returns the state is IDLE and current_step is 0.
C13_QuietRunHitsMaxSteps ==
    (tool_choices = "auto" /\ pc["t1"] = "returned") =>
        /\ step_count["t1"] = max_steps
        /\ Len(results["t1"]) = max_steps + 1
        /\ results["t1"][max_steps + 1] =
              "Terminated: reached max steps (" \o ToString(max_steps) \o ")"
        /\ retval["t1"] = Join(results["t1"], "\n")
        /\ state = "IDLE"
        /\ current_step = 0

C13_Witness ==
    /\ tool_choices = "auto"
    /\ pc["t1"] = "returned"
    /\ max_steps = 3
    /\ step_count["t1"] = 3
    /\ asks >= 3

\* The step entries of a trace
StepEntries(res) == {i \in 1..Len(res) : Prefix(res[i], 5) = "Step "}

Duplicates(mem) ==
    {i \in 1..(Len(mem) - 1) :
        mem[i].role = "assistant" /\ mem[i].content = mem[Len(mem)].content}

\* C15: is_stuck() returns false whenever Memory holds fewer than 2 messages
\* or the content of the last message is empty; otherwise it returns true
\* iff the number of assistant messages before the last one whose content
\* equals the content of the last one is at least duplicate_threshold.
C15_IsStuckCountsDuplicates ==
    probe.op = "is_stuck" =>
        /\ probe.before = messages
        /\ (Len(messages) < 2 \/ messages[Len(messages)].content = "") => ~probe.truth
        /\ (Len(messages) >= 2 /\ messages[Len(messages)].content # "") =>
              (probe.truth <=> Cardinality(Duplicates(messages)) >= duplicate_threshold)

C15_Witness ==
    /\ probe.op = "is_stuck"
    /\ probe.truth
    /\ Len(messages) = 3
    /\ messages[3].role = "user"
    /\ Cardinality(Duplicates(messages)) = 2

\* C16: with duplicate_threshold = 2 and a model that under tool-choice AUTO
\* returns the same non-empty content and no tool call every time, stuck
\* detection does not fire after the first or the second response and fires
\* after the third; when it fires it prepends the strategy-change directive
\* to next_step_prompt, changes neither the state nor the step count and
\* leaves the run in its loop, and the prompt message the following think
\* appends to Memory contains the directive.
C16_StuckOnThirdRepeat ==
    [][tool_choices = "auto" =>
          /\ (pc["t1"] = "think_wait" /\ pc'["t1"] # "think_wait") =>
                /\ pc'["t1"] = "loop"
                /\ (next_step_prompt' # next_step_prompt) <=> (asks' >= 3)
                /\ asks' >= 3 =>
                      /\ next_step_prompt' = STUCK_PROMPT \o "\n" \o next_step_prompt
                      /\ state' = state
                      /\ current_step' = current_step
                      /\ step_count' = step_count
          /\ (pc["t1"] = "loop" /\ pc'["t1"] = "think_wait" /\ asks >= 3) =>
                /\ messages'[Len(messages')].role = "user"
                /\ Contains(messages'[Len(messages')].content, STUCK_PROMPT)]_vars

C16_Witness ==
    /\ tool_choices = "auto"
    /\ kind = "toolcall"
    /\ asks = 3
    /\ step_count["t1"] = 4
    /\ pc["t1"] = "think_wait"
    /\ state = "RUNNING"
    /\ Contains(messages[Len(messages)].content, STUCK_PROMPT)
    /\ \A i \in 1..(Len(messages) - 1) : ~Contains(messages[i].content, STUCK_PROMPT)

\* The tool messages of Memory that answer the call with this id
ToolMessagesOf(id) ==
    {j \in 1..Len(messages) : messages[j].role = "tool" /\ messages[j].tool_call_id = id}

\* The times the call with this id was passed to ToolCollection.execute
DispatchesOf(id) == {j \in 1..Len(dispatched) : dispatched[j] = id}

\* Some task is inside the loop of act()
InAct == \E t \in Tasks : pc[t] \in {"exec", "exec_wait"}

\* C17 as stated: every tool call the model returned in a think phase is
\* executed exactly once, by the act phase of the same step, and never by a
\* later step or run.
C17_EveryCallExecutedOnce ==
    (~InAct /\ ~last_think.raised) =>
        \A i \in 1..Len(last_think.calls) :
            Cardinality(ToolMessagesOf(last_think.calls[i].id)) = 1

\* C17 amended: the tool calls of a think phase that returned true are each
\* handed to execute_tool exactly once, by the act phase of the same step
\* (one tool message each, at most one dispatch to the registry); the calls
\* of a think phase that returned false are never executed; and no call is
\* executed again by a later step or a later run.
C17_ActConsumesCallsOnce ==
    /\ (~InAct /\ last_think.ret) =>
          \A i \in 1..Len(last_think.calls) :
              Cardinality(ToolMessagesOf(last_think.calls[i].id)) = 1
    /\ ~last_think.ret =>
          \A i \in 1..Len(last_think.calls) :
              /\ ToolMessagesOf(last_think.calls[i].id) = {}
              /\ DispatchesOf(last_think.calls[i].id) = {}
    /\ \A j \in 1..Len(messages) :
          messages[j].role = "tool" =>
              Cardinality(ToolMessagesOf(messages[j].tool_call_id)) = 1
    /\ \A j \in 1..Len(dispatched) : Cardinality(DispatchesOf(dispatched[j])) = 1

C17_Witness ==
    /\ ~InAct
    /\ last_think.ret
    /\ Len(last_think.calls) = 2
    /\ asks = 2
    /\ Cardinality(ToolMessagesOf(last_think.calls[1].id)) = 1
    /\ Cardinality(ToolMessagesOf(last_think.calls[2].id)) = 1
    /\ DispatchesOf(last_think.calls[1].id) # {}
    /\ \E t \in Tasks : pc[t] = "returned"

\* C18: during a run Memory only grows by appending: for every operation of
\* the core the message sequence before it is a prefix of the sequence
\* after it; no message is removed, reordered or modified.
C18_MemoryAppendOnly ==
    [][/\ Len(messages) <= Len(messages')
       /\ SubSeq(messages', 1, Len(messages)) = messages]_vars

C18_Witness ==
    /\ Len(messages) >= 5
    /\ \E j \in 1..Len(messages) : messages[j].role = "tool"
    /\ \E j \in 1..Len(messages) : messages[j].role = "assistant"
    /\ kind = "planning"
    /\ \E t \in Tasks : pc[t] = "returned"

\* C19: for one agent at most one think-or-act operation is in flight: no
\* two model requests and no two tool executions overlap under any
\* interleaving of run() calls, and a run() started while another is in
\* progress issues no request.
C19_OneOperationInFlight ==
    /\ Cardinality({t \in Tasks : pc[t] \in {"cip_wait", "think_wait"}}) <= 1
    /\ Cardinality({t \in Tasks : pc[t] = "exec_wait"}) <= 1
    /\ \A t \in Tasks :
          pc[t] \in {"cip_wait", "think_wait", "exec_wait"} =>
              \A u \in Tasks \ {t} : pc[u] \in Outside

\* C20: ToolCollection.execute with a name that is not registered never
\* raises: it returns a failure ToolResult whose error text mentions the
\* unknown name, and no tool is executed (the plan store stays as it was).
C20_UnknownToolReturnsFailure ==
    [][(probe'.op = "execute" /\ probe'.arg \notin tool_map(kind)) =>
          /\ ~probe'.raised
          /\ probe'.failure
          /\ probe'.text = "Error: Tool does not exist: " \o probe'.arg
          /\ Contains(probe'.text, probe'.arg)
          /\ plans' = plans
          /\ current_plan_id' = current_plan_id]_vars

C20_Witness ==
    /\ probe.op = "execute"
    /\ probe.arg = UnknownName
    /\ probe.failure
    /\ ~probe.raised
    /\ Contains(probe.text, UnknownName)

\* C21: ToolCollection.execute never raises on the failure of a registered
\* tool: a fault of whatever kind raised by the execution of the tool is
\* caught and returned as a failure ToolResult that carries the error.
C21_ExecuteCatchesEveryFault ==
    (probe.op = "execute" /\ probe.arg \in tool_map(kind)) => ~probe.raised

\* The entries of the exported schema list that carry this name
ParamsNamed(reg, n) == {i \in DOMAIN to_params(reg) : to_params(reg)[i].name = n}

\* C22: add_tool and add_tools register idempotently by name: afterwards the
\* registry holds exactly one capability for each name, dispatch by a name
\* reaches the tool registered last under it, to_params lists each name
\* once, and a tool registered a second time is not held a second time.
C22_RegistrationIdempotent ==
    /\ \A n \in DOMAIN registry.tool_map :
          /\ Cardinality(ParamsNamed(registry, n)) = 1
          /\ \A i \in ParamsNamed(registry, n) :
                to_params(registry)[i] = get_tool(registry, n)
    /\ \A i, j \in DOMAIN registry.tools :
          registry.tools[i] = registry.tools[j] => i = j

\* C23: at every observable point, after any sequence of create, update,
\* mark_step, set_active and delete commands, accepted or rejected, every
\* plan of the store has as many statuses and as many notes as steps.
C23_PlanListsSameLength ==
    \A i \in 1..Len(plans) :
        /\ Len(plans[i].step_statuses) = Len(plans[i].steps)
        /\ Len(plans[i].step_notes) = Len(plans[i].steps)

C23_Witness ==
    /\ probe.op = "update"
    /\ ~probe.failure
    /\ probe.cmd.steps = <<"book", "rest">>
    /\ Len(plans) = 2
    /\ PlanOf(plans, probe.arg).steps = <<"book", "rest">>
    /\ PlanOf(plans, probe.arg).step_notes = <<"", "">>
    /\ \E i \in 1..Len(plans) :
          Len(plans[i].steps) = 3 /\ plans[i].step_statuses[2] = "completed"

\* The plan a mark_step command addresses: its plan_id, or the current plan
MarkTarget(c, cur) == IF c.plan_id # "" THEN c.plan_id ELSE cur

\* The status of a mark_step command is none of the four step statuses
InvalidStatus(c) ==
    c.step_status # "" /\ \A k \in 1..Len(StepStatuses) : StepStatuses[k] # c.step_status

\* The index of a mark_step command lies outside [0, len(steps)) of its plan
OutOfRange(c, ps, cur) ==
    /\ HasPlan(ps, MarkTarget(c, cur))
    /\ c.step_index # NoIndex
    /\ \/ c.step_index[1] < 0
       \/ c.step_index[1] >= Len(PlanOf(ps, MarkTarget(c, cur)).steps)

\* C24: mark_step with a step_index outside [0, len(steps)), or with an
\* invalid status, is rejected with a failure result and leaves the plan
\* (steps, statuses, notes) and the rest of the store unmodified.
C24_BadMarkStepRejected ==
    [][(/\ probe'.op = "mark_step"
        /\ \/ InvalidStatus(probe'.cmd)
           \/ OutOfRange(probe'.cmd, plans, current_plan_id)) =>
          /\ probe'.failure
          /\ plans' = plans
          /\ current_plan_id' = current_plan_id]_vars

C24_Witness ==
    /\ probe.op = "mark_step"
    /\ probe.failure
    /\ probe.cmd.step_index = <<3>>
    /\ probe.cmd.step_status = "completed"
    /\ Len(plans) = 2
    /\ HasPlan(plans, probe.cmd.plan_id)
    /\ Len(PlanOf(plans, probe.cmd.plan_id).steps) = 3

\* C25: create is accepted only with a plan_id, a non-empty title and a
\* non-empty list of steps, and only when no plan has that id; a rejected
\* create leaves all plans and the current plan id unchanged, so no plan is
\* overwritten; an accepted create adds a plan whose steps all have status
\* not_started and empty notes.
C25_CreateValidatesAndInitialises ==
    [][probe'.op = "create" =>
          /\ ~probe'.failure <=>
                /\ probe'.cmd.plan_id # ""
                /\ probe'.cmd.title # ""
                /\ probe'.cmd.steps # <<>>
                /\ ~HasPlan(plans, probe'.cmd.plan_id)
          /\ probe'.failure => (plans' = plans /\ current_plan_id' = current_plan_id)
          /\ ~probe'.failure =>
                /\ Len(plans') = Len(plans) + 1
                /\ SubSeq(plans', 1, Len(plans)) = plans
                /\ plans'[Len(plans')].plan_id = probe'.cmd.plan_id
                /\ plans'[Len(plans')].title = probe'.cmd.title
                /\ plans'[Len(plans')].steps = probe'.cmd.steps
                /\ Len(plans'[Len(plans')].step_statuses) = Len(probe'.cmd.steps)
                /\ Len(plans'[Len(plans')].step_notes) = Len(probe'.cmd.steps)
                /\ \A i \in 1..Len(probe'.cmd.steps) :
                      /\ plans'[Len(plans')].step_statuses[i] = "not_started"
                      /\ plans'[Len(plans')].step_notes[i] = ""]_vars

\* A create for an id whose plan holds a completed step was rejected
C25_Witness ==
    /\ probe.op = "create"
    /\ probe.failure
    /\ probe.cmd.title # ""
    /\ probe.cmd.steps = <<"book", "rest">>
    /\ HasPlan(plans, probe.cmd.plan_id)
    /\ PlanOf(plans, probe.cmd.plan_id).steps = <<"book", "pack", "fly">>
    /\ PlanOf(plans, probe.cmd.plan_id).step_statuses[2] = "completed"

\* The line the rendering of a plan is to show for its step i (from 1)
StepLine(plan, i) ==
    ToString(i - 1) \o ". " \o get_status_marks(plan.step_statuses[i]) \o " " \o plan.steps[i]

\* C26: the rendered text of a plan contains a literal line Steps: followed
\* by one line per step, in step order, of the form
\* <index>. <marker> <step text>, the marker being [ ], [<U+2192>], [<U+2713>] or
\* [!] for not_started, in_progress, completed and blocked; after create
\* with 3 steps and mark_step(1, completed) the markers read [ ] [<U+2713>] [ ].
C26_RenderedPlanShowsMarkers ==
    \A p \in 1..Len(plans) :
        \E lines \in {splitlines(_format_plan(plans[p]))} :
        \E k \in 1..Len(lines) :
            /\ lines[k] = "Steps:"
            /\ \A i \in 1..Len(plans[p].steps) :
                  \E j \in (k + i)..Len(lines) : lines[j] = StepLine(plans[p], i)

\* The positions (from 1) of the steps of a plan that are not started or in
\* progress
ActiveSteps(plan) ==
    {i \in 1..Len(plan.steps) : plan.step_statuses[i] \in {"not_started", "in_progress"}}

\* think() of the planning agent runs: run() goes from its loop test to the
\* model request of think()
ThinkLooksUp ==
    /\ kind = "planning"
    /\ \E t \in Tasks : pc[t] = "loop" /\ pc'[t] = "think_wait"

\* C27: whenever think() of the planning agent runs with an active plan that
\* exists in the planning tool and has a step that is not_started or
\* in_progress, after the index lookup the first such step is in_progress in
\* the plan store and current_step_index is the index of that step.
C27_LookupFlipsFirstActiveStep ==
    [][ (/\ ThinkLooksUp
         /\ active_plan_id # ""
         /\ HasPlan(plans, active_plan_id)
         /\ ActiveSteps(PlanOf(plans, active_plan_id)) # {})
        => \E i \in {FirstOf(ActiveSteps(PlanOf(plans, active_plan_id)))} :
              /\ HasPlan(plans', active_plan_id)
              /\ PlanOf(plans', active_plan_id).step_statuses[i] = "in_progress"
              /\ current_step_index' = <<i - 1>> ]_vars

\* think() has been answered by the model client
ThinkAnswered(t) == pc[t] = "think_wait" /\ pc'[t] # "think_wait" /\ asks' = asks + 1

\* The first call is one think() records against the step idx
Trackable(calls, idx) ==
    /\ calls # <<>>
    /\ calls[1].name # PlanningName
    /\ calls[1].name \notin special_tool_names
    /\ idx # NoIndex

\* The tracker tr holds for the call id a record of the given status and step
HasRecord(tr, id, status, idx) ==
    /\ Tracked(tr, id)
    /\ tr[TrackPos(tr, id)].status = status
    /\ tr[TrackPos(tr, id)].step_index = idx

\* The step idx (from 0) of the plan pid exists in the store ps
StepExists(ps, pid, idx) ==
    HasPlan(ps, pid) /\ idx + 1 \in 1..Len(PlanOf(ps, pid).steps)

\* act() of the step ends
ActEnds(t) == pc[t] \in {"exec", "exec_wait"} /\ pc'[t] = "loop"

\* think() records a pending entry for a trackable first call and for no
\* other
ThinkRecords ==
    \A t \in Tasks : (kind = "planning" /\ ThinkAnswered(t)) =>
        IF last_think'.ret /\ Trackable(tool_calls', current_step_index)
        THEN /\ ~Tracked(step_execution_tracker, tool_calls'[1].id)
             /\ HasRecord(step_execution_tracker', tool_calls'[1].id, "pending",
                          current_step_index[1])
        ELSE step_execution_tracker' = step_execution_tracker

\* act() completes the record of the first call with its result
ActCompletesRecord(t) ==
    /\ HasRecord(step_execution_tracker', tool_calls[1].id, "completed",
                 step_execution_tracker[TrackPos(step_execution_tracker,
                                                 tool_calls[1].id)].step_index)
    /\ step_execution_tracker'[TrackPos(step_execution_tracker, tool_calls[1].id)].result
          = Join(act_results'[t], "\n\n")

\* The plan step the record of the first call tracks
TrackedStep == step_execution_tracker[TrackPos(step_execution_tracker,
                                               tool_calls[1].id)].step_index

\* C28 as stated: when think schedules as its first tool call a tool that
\* is neither the planning tool nor a special tool and a current-step index
\* was resolved, a pending record keyed by the id of that call is created;
\* after the act of the same step the record is completed with the act
\* result stored and the plan step at the tracked index has status
\* completed; no record is created for planning or special calls or when no
\* index was resolved.
C28_TrackedStepCompleted ==
    [][ /\ ThinkRecords
        /\ \A t \in Tasks :
              (kind = "planning" /\ ActEnds(t)
                 /\ Tracked(step_execution_tracker, tool_calls[1].id)) =>
                 /\ ActCompletesRecord(t)
                 /\ StepExists(plans', active_plan_id, TrackedStep)
                 /\ PlanOf(plans', active_plan_id).step_statuses[TrackedStep + 1]
                       = "completed" ]_vars

\* C28, amended: as above, but the plan step at the tracked index has status
\* completed provided that step still exists in the active plan when act
\* ends (a later call of the same step may have deleted the plan, and the
\* failure of the mark-step command is swallowed).
C28_TrackedStepCompletedIfPresent ==
    [][ /\ ThinkRecords
        /\ \A t \in Tasks :
              (kind = "planning" /\ ActEnds(t)
                 /\ Tracked(step_execution_tracker, tool_calls[1].id)) =>
                 /\ ActCompletesRecord(t)
                 /\ StepExists(plans', active_plan_id, TrackedStep) =>
                       PlanOf(plans', active_plan_id).step_statuses[TrackedStep + 1]
                          = "completed" ]_vars

\* A record of an ordinary call is completed with its result and the plan
\* step it tracks is completed
C28_Witness ==
    \E i \in 1..Len(step_execution_tracker) :
        /\ step_execution_tracker[i].status = "completed"
        /\ step_execution_tracker[i].tool_name = OrdinaryName
        /\ step_execution_tracker[i].result # ""
        /\ StepExists(plans, active_plan_id, step_execution_tracker[i].step_index)
        /\ PlanOf(plans, active_plan_id).step_statuses[
                step_execution_tracker[i].step_index + 1] = "completed"

\* The get command think() issues for the active plan fails
GetFails ==
    active_plan_id # "" /\ get_plan(kind, active_plan_id, plans, current_plan_id).is_none

\* The lookup of think() resolved an index that is no step of the active
\* plan: its mark_step in_progress command has failed
MarkInProgressFails ==
    current_step_index' # NoIndex
       /\ ~StepExists(plans, active_plan_id, current_step_index'[1])

\* act() ends on a tracked call whose step is no step of the active plan:
\* the mark_step completed command has failed
MarkCompletedFails(t) ==
    /\ ActEnds(t)
    /\ Tracked(step_execution_tracker, tool_calls[1].id)
    /\ ~StepExists(plans', active_plan_id, TrackedStep)

\* C29: a failure of a plan command the planning agent issues itself (get,
\* mark_step in_progress, mark_step completed, on a plan that does not exist
\* or was deleted or on an index out of range) does not raise out of think()
\* or act(), does not change the agent state, and does not keep the tool
\* calls of the step from being executed.
C29_PlanCommandFailuresSwallowed ==
    [][ \A t \in Tasks : kind = "planning" =>
          /\ (pc[t] = "loop" /\ Continue(current_step, max_steps, state)
                 /\ (GetFails \/ MarkInProgressFails)) =>
                 /\ pc'[t] = "think_wait"
                 /\ state' = state
                 /\ fault' = fault
                 /\ plans' = plans
          /\ (ThinkAnswered(t) /\ last_think'.ret /\ tool_calls' # <<>>) =>
                 pc'[t] = "exec"
          /\ MarkCompletedFails(t) =>
                 /\ pc'[t] = "loop"
                 /\ fault' = fault
                 /\ state' = last_exec'.after
                 /\ Len(act_results'[t]) = Len(tool_calls)
                 /\ ActCompletesRecord(t) ]_vars

\* think() has gone on to its model request although the active plan is
\* gone and the record of the last ordinary call could not be marked in
\* the plan
C29_Witness ==
    /\ pc["t1"] = "think_wait"
    /\ state = "RUNNING"
    /\ ~HasPlan(plans, active_plan_id)
    /\ \E i \in 1..Len(step_execution_tracker) :
          step_execution_tracker[i].status = "completed"

\* create_initial_plan has been answered by the model client
CipAnswered(t) == pc[t] = "cip_wait" /\ pc'[t] # "cip_wait" /\ asks' = asks + 1

\* The messages create_initial_plan appends to mem for the tool calls of
\* the answer: one tool message with the result obs of the first planning
\* call, or the warning if there is none
InitialPlanMessages(mem, calls, obs) ==
    \E k \in {FirstPlanningCall(calls)} :
        IF k # 0
        THEN /\ Len(mem) >= 1
             /\ mem[Len(mem)] = tool_message(obs, calls[k].id, PlanningName)
             /\ \A i \in 1..(Len(mem) - 1) : mem[i].role # "tool"
        ELSE /\ Len(mem) >= 1
             /\ mem[Len(mem)].role = "assistant"
             /\ \A i \in 1..Len(mem) : mem[i].role # "tool"

\* C30: create_initial_plan executes at most one tool call, the first call
\* of the answer whose name is the planning tool, and appends exactly one
\* tool message with its result; if the answer holds no planning call it
\* appends a warning message and executes nothing; in both cases it raises
\* no fault and the run goes on to the loop (here: of an agent that is IDLE).
C30_InitialPlanNeverRaises ==
    [][ \A t \in Tasks : (kind = "planning" /\ CipAnswered(t) /\ state = "IDLE") =>
          /\ pc'[t] = "loop"
          /\ fault'[t] = ""
          /\ Len(messages') = Len(messages) + 2
          /\ \E calls \in {messages'[Len(messages) + 1].tool_calls} :
                /\ InitialPlanMessages(SubSeq(messages', Len(messages) + 2,
                                               Len(messages')),
                                       calls, last_exec'.obs)
                /\ IF FirstPlanningCall(calls) # 0
                   THEN dispatched' = Append(dispatched,
                                             calls[FirstPlanningCall(calls)].id)
                   ELSE dispatched' = dispatched ]_vars

\* The caller is inside an operation on the resource of the tool
Operating(c, tool) ==
    /\ callers[c].tool = tool
    /\ callers[c].at \in {"running", "spawning", "communicating", "init", "acting",
                           "closing"}

\* C31: the tools that wrap a long-lived resource (Bash, Terminal,
\* BrowserUseTool) serialize their operations: under concurrent callers of
\* one instance no two operations on the same session, process or browser
\* overlap, and no caller meets a session that another caller has created
\* but not yet started.
C31_SessionToolsSerialize ==
    /\ \A c \in Callers : \A d \in Callers \ {c} :
          \A tool \in {"bash", "terminal", "browser"} :
              (Operating(c, tool) /\ Operating(d, tool))
                 => (tool = "bash" /\ callers[c].session # callers[d].session)
    /\ \A c \in Callers : callers[c].at # "unstarted"

\* The execution e of a call ended in an error: the tool was not run to a
\* result (bad name, unparseable arguments, an exception), or the result
\* returned for it is a ToolFailure
EndsInError(e) ==
    \/ ~e.ran
    \/ e.obs = Observation(e.call, ToolFailure(<<>>, "", "boom"), "").obs

\* C32: the state becomes FINISHED only by a call of a special tool whose
\* execution succeeded; a call that names a special tool and ends in an
\* error (unparseable arguments, an exception during dispatch, a failure
\* result returned for the tool) leaves the agent state unchanged.
C32_FinishedOnlyBySuccessfulSpecialTool ==
    [][ /\ (state' = "FINISHED" /\ state # "FINISHED") =>
              (_is_special_tool(last_exec'.call.name) /\ ~EndsInError(last_exec'))
        /\ (last_exec' # last_exec /\ _is_special_tool(last_exec'.call.name)
               /\ EndsInError(last_exec')) => state' = state ]_vars

\* C33: get_plan() returns the notice of no active plan when no plan id is
\* set, and otherwise the rendered text of the active plan fetched through
\* the planning tool; in every case, also when the active plan id names no
\* plan of the store, what it returns is a text string.  Checked where
\* think() of the planning agent calls it.
C33_GetPlanReturnsText ==
    [][ ThinkLooksUp =>
          \E plan \in {get_plan(kind, active_plan_id, plans, current_plan_id)} :
             /\ ~plan.is_none
             /\ active_plan_id = "" => plan = NoPlan
             /\ (active_plan_id # "" /\ HasPlan(plans, active_plan_id)) =>
                   plan.text = _format_plan(PlanOf(plans, active_plan_id)) ]_vars

\* C34: for every plan rendered in the documented format, also one whose
\* steps carry a note line, the current-step index the planning agent
\* derives is the 0-based index of the first step that is not_started or
\* in_progress, and no index is derived exactly when there is no such step.
C34_IndexIsFirstActiveStep ==
    [][ probe'.op = "lookup" =>
          probe'.index = (IF ActiveSteps(PlanOf(plans, probe'.arg)) = {} THEN NoIndex
                          ELSE <<FirstOf(ActiveSteps(PlanOf(plans, probe'.arg))) - 1>>)
      ]_vars

\* C35: in tool-choice mode NONE no tool is executed: the tool calls of an
\* answer are not dispatched by the act phase that follows, whatever else
\* the answer holds.
C35_ModeNoneExecutesNothing ==
    [][ (tool_choices = "none" /\ InAct) =>
           (dispatched' = dispatched /\ last_exec' = last_exec) ]_vars

\* act() of task t goes on: it executes a command or waits for its tool
ActMoves(t) ==
    /\ pc[t] \in {"exec", "exec_wait"}
    /\ pc'[t] # pc[t] \/ cmd_idx'[t] # cmd_idx[t]

\* C36: within one act(), once the execution of a special tool has set the
\* state to FINISHED, the remaining tool calls of the same answer are not
\* executed and produce no tool message.
C36_NoExecutionAfterFinished ==
    [][ \A t \in Tasks : (state = "FINISHED" /\ ActMoves(t)) =>
           /\ dispatched' = dispatched
           /\ last_exec' = last_exec
           /\ messages' = messages ]_vars

\* C37: every run() started on an IDLE agent begins with current_step = 0,
\* so that each run has the full budget of max_steps steps, however the run
\* before it on the same agent ended (max steps reached, FINISHED, a fault).
C37_RunStartsAtStepZero ==
    \A t \in Tasks : entry_step[t] = 0

\* C38: Manus releases the browser only when a special tool has been
\* executed: while a run executes a tool whose name is not in
\* special_tool_names it never invokes cleanup() of the browser tool, and no
\* step of that run changes the browser or its context once the tool has
\* returned.
ManusCleans(c) == manus[c].at # "cleanup" /\ manus'[c].at = "cleanup"

C38_OrdinaryToolKeepsBrowser ==
    [][ \A c \in Callers :
          ((manus[c].name # "" \/ manus'[c].name # "")
           /\ ~_is_special_tool(IF manus[c].name # "" THEN manus[c].name
                                ELSE manus'[c].name)) =>
              /\ ~ManusCleans(c)
              /\ (manus[c].at = "cleanup" /\ callers'[c] # callers[c]) =>
                    (/\ browser_tool'.browser = browser_tool.browser
                     /\ browser_tool'.context = browser_tool.context) ]_vars

\* C39: after any sequence of planning-tool commands, accepted or rejected,
\* the current-plan id of the tool is unset or is the id of a plan of the
\* store.
C39_CurrentPlanExists == current_plan_id = "" \/ HasPlan(plans, current_plan_id)

\* The current plan has been deleted while another plan stays in the store
C39_Witness ==
    /\ probe.op = "delete"
    /\ ~probe.failure
    /\ current_plan_id = ""
    /\ plans # <<>>

\* C40: Terminal.close() called while a command started by execute() is
\* running terminates the process of that command and returns with no
\* process left: a close() called while a command was running returns only
\* from the termination of the process, never from the wait for the command
\* to end by itself.
CloseReturns(c) ==
    /\ callers[c].tool = "terminal"
    /\ callers[c].at \in {"waiting_close", "terminating"}
    /\ callers'[c].at = "closed"

C40_CloseTerminatesRunningCommand ==
    [][ \A c \in Callers :
          (CloseReturns(c) /\ callers[c].session = 1) =>
              (callers[c].at = "terminating" /\ terminal_tool'.process = "") ]_vars

====
